---- MODULE Spec2Model ----
(***************************************************************************)
(* Document processing pipeline of finance-bot-api-v2: the worker          *)
(* (lambda/workers/pdf-processor.js), the text extractor and the document  *)
(* tracker (lambda/shared/pdf-text-extractor.js), and the transaction      *)
(* parser (lambda/shared/transaction-parser.js).                           *)
(*                                                                         *)
(* JavaScript strings are modelled as sequences of one-character strings,  *)
(* so that substring tests, regular-expression matches, split, replace and *)
(* trim are computed on the characters as the code computes them.  A text  *)
(* is the sequence of its lines (text.split('\n')).  An optional value     *)
(* (null / undefined) is a sequence of length 0 or 1.                      *)
(***************************************************************************)
EXTENDS Integers, Sequences, FiniteSets, TLC

VARIABLES
    object,     \* the uploaded S3 object: key, metadata, body
    passwords,  \* document-passwords table: the stored credential, if any
    uploads,    \* document-uploads table, per store: the document's record
    txStore,    \* finance-transactions table, per store: transactionId -> item
    queue,      \* the SQS message: deliveries made so far, acknowledged or not
    inv,        \* per invocation: position and local variables of the handler
    hist,       \* per invocation: what it has done so far (writes, stages, tool results)
    px          \* the parser runs of the parser specification

vars == <<object, passwords, uploads, txStore, queue, inv, hist, px>>

----------------------------------------------------------------------------
(* Characters and strings *)

None == <<>>

Some(x) == <<x>>

\* a JavaScript truthiness test of an optional string
Truthy(o) == o # None /\ o[1] # <<>>

IsDigit(c) == c \in {"0", "1", "2", "3", "4", "5", "6", "7", "8", "9"}

IsSpace(c) == c \in {" ", "\t"}

MinOf(S) == CHOOSE x \in S : \A y \in S : x <= y

MaxOf(S) == CHOOSE x \in S : \A y \in S : y <= x

StartsAt(s, p, i) ==
    /\ i >= 1
    /\ i + Len(p) - 1 <= Len(s)
    /\ \A k \in 1..Len(p) : s[i + k - 1] = p[k]

\* String.prototype.includes
Includes(s, p) == \E i \in 1..(Len(s) + 1) : StartsAt(s, p, i)

\* String.prototype.indexOf, 1-based; 0 when absent
IndexOf(s, p) ==
    IF Includes(s, p) THEN MinOf({i \in 1..(Len(s) + 1) : StartsAt(s, p, i)}) ELSE 0

\* String.prototype.replace with a string pattern: the first occurrence only
ReplaceFirst(s, p, r) ==
    LET i == IndexOf(s, p)
    IN  IF i = 0 THEN s
        ELSE SubSeq(s, 1, i - 1) \o r \o SubSeq(s, i + Len(p), Len(s))

\* String.prototype.replace with the global pattern /\./g and replacement ''
RemoveAll(s, c) == SelectSeq(s, LAMBDA x : x # c)

\* String.prototype.trim
Trim(s) ==
    LET keep == {i \in 1..Len(s) : ~IsSpace(s[i])}
    IN  IF keep = {} THEN <<>> ELSE SubSeq(s, MinOf(keep), MaxOf(keep))

UpperChars == <<"A", "B", "C", "D", "E", "F", "G", "H", "I", "J", "K", "L", "M", "N", "O", "P", "Q", "R", "S", "T", "U", "V", "W", "X", "Y", "Z", "Ñ", "Á", "É", "Í", "Ó", "Ú">>

LowerChars == <<"a", "b", "c", "d", "e", "f", "g", "h", "i", "j", "k", "l", "m", "n", "o", "p", "q", "r", "s", "t", "u", "v", "w", "x", "y", "z", "ñ", "á", "é", "í", "ó", "ú">>

LowerChar(c) ==
    IF \E i \in 1..Len(UpperChars) : UpperChars[i] = c
    THEN LowerChars[CHOOSE i \in 1..Len(UpperChars) : UpperChars[i] = c]
    ELSE c

\* String.prototype.toLowerCase
ToLower(s) == [i \in 1..Len(s) |-> LowerChar(s[i])]

RECURSIVE Split(_, _)
\* String.prototype.split with a one-character separator
Split(s, c) ==
    LET i == IndexOf(s, <<c>>)
    IN  IF i = 0 THEN <<s>>
        ELSE <<SubSeq(s, 1, i - 1)>> \o Split(SubSeq(s, i + 1, Len(s)), c)

RECURSIVE PadStart(_, _, _)
\* String.prototype.padStart with a one-character filler
PadStart(s, n, c) == IF Len(s) >= n THEN s ELSE PadStart(<<c>> \o s, n, c)

RECURSIVE Join(_, _)
\* Array.prototype.join
Join(parts, sep) ==
    IF Len(parts) = 0 THEN <<>>
    ELSE IF Len(parts) = 1 THEN parts[1]
    ELSE parts[1] \o sep \o Join(Tail(parts), sep)

\* what Array.prototype.join and a template literal print for an optional string
OptStr(o) == IF o = None THEN <<>> ELSE o[1]

----------------------------------------------------------------------------
(* Numbers: a JavaScript number that parseFloat can return for a run of    *)
(* digits with at most one decimal point is either NaN or a non-negative   *)
(* decimal mant / 10^scale, kept normalised (no trailing zero in the       *)
(* fraction), which is exact for the short tokens of the model.            *)

NaN == [nan |-> TRUE, mant |-> 0, scale |-> 0]

RECURSIVE Pow10(_)
Pow10(n) == IF n = 0 THEN 1 ELSE 10 * Pow10(n - 1)

RECURSIVE Normalise(_, _)
Normalise(m, sc) ==
    IF sc > 0 /\ m % 10 = 0 THEN Normalise(m \div 10, sc - 1)
    ELSE [nan |-> FALSE, mant |-> m, scale |-> sc]

DigitChars == <<"0", "1", "2", "3", "4", "5", "6", "7", "8", "9">>

DigitVal(c) == (CHOOSE i \in 1..10 : DigitChars[i] = c) - 1

RECURSIVE DigitsToNat(_)
DigitsToNat(ds) ==
    IF Len(ds) = 0 THEN 0
    ELSE 10 * DigitsToNat(SubSeq(ds, 1, Len(ds) - 1)) + DigitVal(ds[Len(ds)])

RECURSIVE NatToDigits(_)
NatToDigits(n) ==
    IF n < 10 THEN <<DigitChars[n + 1]>>
    ELSE NatToDigits(n \div 10) \o <<DigitChars[(n % 10) + 1]>>

RECURSIVE DigitRunEnd(_, _)
\* the index after the maximal run of digits of s that starts at i
DigitRunEnd(s, i) ==
    IF i <= Len(s) /\ IsDigit(s[i]) THEN DigitRunEnd(s, i + 1) ELSE i

\* parseFloat on a string without sign or exponent: the longest prefix
\* digits [ '.' digits ], NaN when that prefix holds no digit
ParseFloat(str) ==
    LET s  == Trim(str)
        e1 == DigitRunEnd(s, 1)
        int == SubSeq(s, 1, e1 - 1)
        e2 == IF e1 <= Len(s) /\ s[e1] = "." THEN DigitRunEnd(s, e1 + 1) ELSE e1
        frac == IF e2 > e1 THEN SubSeq(s, e1 + 1, e2 - 1) ELSE <<>>
    IN  IF Len(int) = 0 /\ Len(frac) = 0 THEN NaN
        ELSE Normalise(DigitsToNat(int \o frac), Len(frac))

\* Number.prototype.toString, as Array.prototype.join prints a number
NumToString(n) ==
    IF n.nan THEN <<"N", "a", "N">>
    ELSE LET p == Pow10(n.scale)
         IN  IF n.scale = 0 THEN NatToDigits(n.mant)
             ELSE NatToDigits(n.mant \div p) \o <<".">>
                  \o PadStart(NatToDigits(n.mant % p), n.scale, "0")

----------------------------------------------------------------------------
(* Transaction parser: lambda/shared/transaction-parser.js *)

\* datePattern = /(\d{2}\/\d{2}\/\d{4})/ matching at index i
DateAt(s, i) ==
    /\ i + 9 <= Len(s)
    /\ \A k \in {0, 1, 3, 4, 6, 7, 8, 9} : IsDigit(s[i + k])
    /\ s[i + 2] = "/"
    /\ s[i + 5] = "/"

\* datePattern.test(line)
HasDate(s) == \E i \in 1..Len(s) : DateAt(s, i)

\* line.match(datePattern)[1]: the leftmost match
DateMatch(s) ==
    LET i == MinOf({j \in 1..Len(s) : DateAt(s, j)}) IN SubSeq(s, i, i + 9)

IsAmountChar(c) == IsDigit(c) \/ c = "." \/ c = ","

RECURSIVE SkipSpaces(_, _)
SkipSpaces(s, i) == IF i <= Len(s) /\ IsSpace(s[i]) THEN SkipSpaces(s, i + 1) ELSE i

RECURSIVE AmountRunEnd(_, _)
AmountRunEnd(s, i) ==
    IF i <= Len(s) /\ IsAmountChar(s[i]) THEN AmountRunEnd(s, i + 1) ELSE i

\* amountPattern = /\$\s*([\d.,]+)/g matching at index i
AmountAt(s, i) ==
    /\ i <= Len(s)
    /\ s[i] = "$"
    /\ LET j == SkipSpaces(s, i + 1) IN j <= Len(s) /\ IsAmountChar(s[j])

RECURSIVE MatchAllAmounts(_, _)
\* [...line.matchAll(amountPattern)].map(m => m[1]): the captures, left to right
MatchAllAmounts(s, i) ==
    IF i > Len(s) THEN <<>>
    ELSE IF AmountAt(s, i)
         THEN LET j == SkipSpaces(s, i + 1)
                  e == AmountRunEnd(s, j)
              IN  <<SubSeq(s, j, e - 1)>> \o MatchAllAmounts(s, e)
         ELSE MatchAllAmounts(s, i + 1)

convertToISODate(dateStr) ==
    LET p == Split(dateStr, "/")
    IN  IF Len(p) < 2 THEN dateStr
        ELSE (IF Len(p) >= 3 THEN p[3] ELSE <<"u", "n", "d", "e", "f", "i", "n", "e", "d">>) \o <<"-">>
             \o PadStart(p[2], 2, "0") \o <<"-">> \o PadStart(p[1], 2, "0")

\* the normalisation that takes '.' for the decimal point: commas removed
parseAmountDecimalPoint(amountStr) == ParseFloat(RemoveAll(amountStr, ","))

\* amountStr.replace(/\./g, '').replace(',', '.'), then parseFloat
parseAmount(amountStr) ==
    ParseFloat(ReplaceFirst(RemoveAll(amountStr, "."), <<",">>, <<".">>))

\* the digest with the time stamp of the transaction among its inputs
generateTransactionHashStamped(t) ==
    [sha256 |-> Join(<<OptStr(t.auth0UserId), OptStr(t.date), NumToString(t.amount),
                       t.merchant, OptStr(t.authNumber), OptStr(t.sourceDocumentId),
                       NatToDigits(t.createdAt)>>,
                     <<"|">>)]

\* the digest without the source document among its inputs
generateTransactionHashNoSource(t) ==
    [sha256 |-> Join(<<OptStr(t.auth0UserId), OptStr(t.date), NumToString(t.amount),
                       t.merchant, OptStr(t.authNumber)>>,
                     <<"|">>)]

\* sha256 of the six fields joined with '|'; the digest is modelled as
\* collision-free, by its input
generateTransactionHash(t) ==
    [sha256 |-> Join(<<OptStr(t.auth0UserId), OptStr(t.date), NumToString(t.amount),
                       t.merchant, OptStr(t.authNumber), OptStr(t.sourceDocumentId)>>,
                     <<"|">>)]

categories == <<
    [category |-> "RESTAURANTES", keywords |-> <<<<"r", "e", "s", "t", "a", "u", "r", "a", "n", "t", "e">>, <<"p", "i", "z", "z", "a">>, <<"b", "u", "r", "g", "e", "r">>,
        <<"c", "o", "m", "i", "d", "a">>, <<"c", "a", "f", "e">>, <<"s", "t", "a", "r", "b", "u", "c", "k", "s">>, <<"m", "c", " ", "d", "o", "n", "a", "l", "d">>, <<"f", "r", "i", "s", "b", "y">>, <<"d", "o", "m", "i", "n", "o", "s">>,
        <<"j", "u", "a", "n", " ", "v", "a", "l", "d">>, <<"c", "o", "f", "f", "e", "e">>>>],
    [category |-> "SUPERMERCADOS", keywords |-> <<<<"e", "x", "i", "t", "o">>, <<"c", "a", "r", "u", "l", "l", "a">>, <<"m", "e", "r", "c", "a", "d", "o">>,
        <<"s", "u", "p", "e", "r">>, <<"h", "o", "m", "e", "c", "e", "n", "t", "e", "r">>, <<"a", "l", "k", "o", "s", "t", "o">>>>],
    [category |-> "TRANSPORTE", keywords |-> <<<<"u", "b", "e", "r">>, <<"t", "a", "x", "i">>, <<"p", "a", "r", "k", "i", "n", "g">>, <<"p", "e", "a", "j", "e">>,
        <<"g", "a", "s", "o", "l", "i", "n", "a">>, <<"e", "c", "o", "p", "e", "t", "r", "o", "l">>, <<"e", "d", "s">>, <<"c", "o", "m", "b", "u", "s", "t", "i", "b", "l", "e">>>>],
    [category |-> "SALUD", keywords |-> <<<<"f", "a", "r", "m", "a", "c", "i", "a">>, <<"d", "r", "o", "g", "u", "e", "r", "i", "a">>, <<"c", "l", "i", "n", "i", "c", "a">>,
        <<"h", "o", "s", "p", "i", "t", "a", "l">>, <<"c", "o", "l", "m", "e", "d", "i", "c", "a">>, <<"f", "a", "r", "m", "a", "t", "o", "d", "o">>, <<"c", "r", "u", "z", " ", "v", "e", "r", "d", "e">>>>],
    [category |-> "TECNOLOGIA", keywords |-> <<<<"a", "m", "a", "z", "o", "n">>, <<"g", "o", "o", "g", "l", "e">>, <<"a", "p", "p", "l", "e">>,
        <<"m", "i", "c", "r", "o", "s", "o", "f", "t">>, <<"n", "e", "t", "f", "l", "i", "x">>, <<"s", "p", "o", "t", "i", "f", "y">>, <<"o", "p", "e", "n", "a", "i">>, <<"g", "i", "t", "h", "u", "b">>, <<"c", "l", "o", "u", "d", "f", "l", "a", "r", "e">>,
        <<"a", "w", "s">>>>],
    [category |-> "ENTRETENIMIENTO", keywords |-> <<<<"c", "i", "n", "e">>, <<"t", "e", "a", "t", "r", "o">>, <<"j", "u", "e", "g", "o">>,
        <<"g", "i", "m", "n", "a", "s", "i", "o">>, <<"f", "i", "t", "n", "e", "s", "s">>, <<"d", "e", "p", "o", "r", "t", "e">>, <<"s", "p", "o", "r", "t", "y">>>>],
    [category |-> "SERVICIOS", keywords |-> <<<<"t", "e", "l", "e", "f", "o", "n">>, <<"i", "n", "t", "e", "r", "n", "e", "t">>, <<"l", "u", "z">>, <<"a", "g", "u", "a">>,
        <<"g", "a", "s">>, <<"m", "o", "v", "i", "s", "t", "a", "r">>, <<"c", "l", "a", "r", "o">>, <<"u", "n", "e">>, <<"s", "t", "a", "r", "l", "i", "n", "k">>>>],
    [category |-> "HOGAR", keywords |-> <<<<"h", "o", "m", "e", "c", "e", "n", "t", "e", "r">>, <<"f", "e", "r", "r", "e", "t", "e", "r", "i", "a">>, <<"m", "u", "e", "b", "l", "e">>,
        <<"d", "e", "c", "o", "r", "a", "c", "i", "o", "n">>>>],
    [category |-> "EDUCACION", keywords |-> <<<<"u", "n", "i", "v", "e", "r", "s", "i", "d", "a", "d">>, <<"c", "o", "l", "e", "g", "i", "o">>, <<"c", "u", "r", "s", "o">>,
        <<"l", "i", "b", "r", "o">>>>],
    [category |-> "VIAJES", keywords |-> <<<<"h", "o", "t", "e", "l">>, <<"a", "e", "r", "o">>, <<"a", "v", "i", "a", "n", "c", "a">>, <<"l", "a", "t", "a", "m">>,
        <<"v", "i", "a", "j", "e">>>>],
    [category |-> "OTROS_SERVICIOS", keywords |-> <<<<"r", "a", "p", "p", "i">>, <<"p", "a", "y", "u">>, <<"p", "a", "g", "o">>>>] >>

\* the classifier that lets the last bucket with a keyword in the merchant win
autoCategoryLast(merchant) ==
    LET merchantLower == ToLower(merchant)
        hits == {i \in 1..Len(categories) :
                    \E k \in 1..Len(categories[i].keywords) :
                        Includes(merchantLower, categories[i].keywords[k])}
    IN  IF hits = {} THEN "SIN_CATEGORIA" ELSE categories[MaxOf(hits)].category

\* the first bucket, in the order of the table, one of whose keywords
\* merchant.toLowerCase() includes; SIN_CATEGORIA when there is none
autoCategory(merchant) ==
    LET merchantLower == ToLower(merchant)
        hit(i) == \E k \in 1..Len(categories[i].keywords) :
                      Includes(merchantLower, categories[i].keywords[k])
        hits == {i \in 1..Len(categories) : hit(i)}
    IN  IF hits = {} THEN "SIN_CATEGORIA" ELSE categories[MinOf(hits)].category

\* the section-start test of the line scanner
IsSectionStart(line) ==
    \/ Includes(line, <<"N", "u", "e", "v", "o", "s", " ", "m", "o", "v", "i", "m", "i", "e", "n", "t", "o", "s">>)
    \/ Includes(line, <<"M", "o", "v", "i", "m", "i", "e", "n", "t", "o", "s">>)
    \/ (Includes(line, <<"N", "ú", "m", "e", "r", "o", " ", "d", "e">>) /\ Includes(line, <<"a", "u", "t", "o", "r", "i", "z", "a", "c", "i", "ó", "n">>))

\* a scanner for which no line ends the section
NeverSectionEnd(line) == FALSE

\* the section-end test of the line scanner
IsSectionEnd(line) ==
    \/ Includes(line, <<"E", "n", " ", "c", "a", "s", "o", "s", " ", "d", "e", " ", "i", "n", "c", "o", "n", "s", "i", "s", "t", "e", "n", "c", "i", "a", "s">>)
    \/ Includes(line, <<"R", "e", "s", "u", "m", "e", "n", " ", "d", "e", " ", "t", "u", " ", "c", "u", "e", "n", "t", "a">>)
    \/ Includes(line, <<"T", "o", "t", "a", "l", " ", "a", " ", "p", "a", "g", "a", "r">>)

\* the body of `if (hasDate && amounts.length > 0)`: one transaction from one line
parseLine(line, metadata, now) ==
    LET date       == DateMatch(line)
        isoDate    == convertToISODate(date)
        parts      == Split(line, "$")
        merchant0  == Trim(ReplaceFirst(Trim(parts[1]), date, <<>>))
        authNumber == IF Len(merchant0) >= 6 /\ \A k \in 1..6 : IsDigit(merchant0[k])
                      THEN Some(SubSeq(merchant0, 1, 6)) ELSE None
        merchant   == IF authNumber # None
                      THEN Trim(ReplaceFirst(merchant0, authNumber[1], <<>>))
                      ELSE merchant0
        amountStr  == MatchAllAmounts(line, 1)[1]
        amount     == parseAmount(amountStr)
        isCredit   == \/ Includes(ToLower(merchant), <<"p", "a", "g", "o">>)
                      \/ Includes(ToLower(merchant), <<"a", "b", "o", "n", "o">>)
                      \/ Includes(ToLower(merchant), <<"r", "e", "v", "e", "r", "s", "i", "o", "n">>)
        \* the fields computed so far; the digest reads six of them
        hash       == generateTransactionHash(
                          [auth0UserId |-> metadata.auth0UserId, date |-> Some(isoDate),
                           amount |-> amount, merchant |-> merchant,
                           authNumber |-> authNumber,
                           sourceDocumentId |-> metadata.sourceDocumentId,
                           createdAt |-> now])
    IN  [auth0UserId      |-> metadata.auth0UserId,
         userEmail        |-> metadata.userEmail,
         transactionId    |-> hash,
         date             |-> Some(isoDate),
         merchant         |-> IF merchant = <<>> THEN <<"D", "E", "S", "C", "O", "N", "O", "C", "I", "D", "O">> ELSE merchant,
         authNumber       |-> authNumber,
         amount           |-> amount,
         amountStr        |-> amountStr,
         type             |-> IF isCredit THEN "CREDIT" ELSE "DEBIT",
         category         |-> autoCategory(merchant),
         sourceDocumentId |-> metadata.sourceDocumentId,
         documentType     |-> metadata.documentType,
         rawLine          |-> line,
         createdAt        |-> now]

RECURSIVE scanLines(_, _, _, _, _)
\* the loop of parseTransactions from line i on, with the section flag as it stands
scanLines(lines, i, inTransactionSection, metadata, now) ==
    IF i > Len(lines) THEN <<>>
    ELSE LET line == Trim(lines[i])
         IN  IF IsSectionStart(line)
             THEN scanLines(lines, i + 1, TRUE, metadata, now)
             ELSE LET emitted ==
                          IF /\ inTransactionSection
                             /\ Len(line) > 0
                             /\ HasDate(line)
                             /\ Len(MatchAllAmounts(line, 1)) > 0
                          THEN <<parseLine(line, metadata, now)>>
                          ELSE <<>>
                      after == IF IsSectionEnd(line) THEN FALSE ELSE inTransactionSection
                  IN  emitted \o scanLines(lines, i + 1, after, metadata, now)

\* parseTransactions(text, metadata), run at time now (new Date() is read per
\* transaction; one run is short enough to read one value)
parseTransactions(text, metadata, now) == scanLines(text, 1, FALSE, metadata, now)

----------------------------------------------------------------------------
(* The stores and the message *)

\* the invocation slots that can run at the same time
Invocations == {1, 2}

\* how many times the queue hands the message to the handler (at-least-once
\* delivery: a standard queue, visibility timeout, no dead-letter queue)
MaxDeliveries == 2

\* the clock readings at which the parser is run
MaxClock == 3

\* the clock readings of the model
Clock == 1..MaxOf({MaxDeliveries, MaxClock})

\* how many times the parser is run on one text
MaxParses == 2

\* every invocation of the deployed worker uses the same tables; the
\* non-interference specification gives each of its two runs its own copy
Stores == {"shared", "observed", "reference"}

\* the attributes of an item of document-uploads that the pipeline reads or writes
UploadAttrs ==
    {"status", "statusComposite", "uploadedAt", "updatedAt", "fileSize",
     "processingStartedAt", "completedAt", "failedAt", "errorType", "errorMessage",
     "canRetry", "transactionsExtracted", "processingTimeMs"}

\* the item the upload-url handler puts when the upload is requested
uploadRecord(auth0UserId) ==
    [a \in UploadAttrs |->
        CASE a = "status"          -> Some("UPLOADED")
          [] a = "statusComposite" -> Some([auth0UserId |-> auth0UserId, status |-> "UPLOADED"])
          [] a = "uploadedAt"      -> Some(0)
          [] OTHER                 -> None]

\* UpdateCommand with a SET expression: the named attributes are assigned,
\* every other attribute of the item is kept
UpdateItem(item, sets) ==
    [a \in UploadAttrs |-> IF a \in DOMAIN sets THEN Some(sets[a]) ELSE item[a]]

\* an update that assigns the status and leaves statusComposite as it is
statusUpdateWithoutComposite(auth0UserId, status, additionalData, now) ==
    additionalData @@ [status |-> status, updatedAt |-> now]

\* the attribute assignments updateDocumentStatus sends
statusUpdate(auth0UserId, status, additionalData, now) ==
    LET base == [status |-> status,
                 statusComposite |-> [auth0UserId |-> auth0UserId, status |-> status],
                 updatedAt |-> now]
        started == IF status = "PROCESSING" /\ "processingStartedAt" \notin DOMAIN additionalData
                   THEN [processingStartedAt |-> now] ELSE <<>>
        completed == IF status = "COMPLETED" /\ "completedAt" \notin DOMAIN additionalData
                     THEN [completedAt |-> now] ELSE <<>>
    IN  additionalData @@ completed @@ started @@ base

----------------------------------------------------------------------------
(* Documents of the model *)

Owner == <<"u", "1">>

DocId == <<"d", "1">>

Password == <<"s", "3", "c", "r", "e", "t">>

TextTwo == << <<"E", "s", "t", "a", "d", "o", " ", "d", "e", " ", "c", "u", "e", "n", "t", "a">>,
              <<"M", "o", "v", "i", "m", "i", "e", "n", "t", "o", "s">>,
              <<"1", "5", "/", "0", "1", "/", "2", "0", "2", "5", " ", "1", "2", "3", "4", "5", "6", "E", "X", "I", "T", "O", " ", "$", "5", "0", ".", "0", "0", "0", ",", "0", "0">>,
              <<"1", "6", "/", "0", "1", "/", "2", "0", "2", "5", " ", "U", "B", "E", "R", " ", "$", " ", "1", ",", "5", "0">>,
              <<"T", "o", "t", "a", "l", " ", "a", " ", "p", "a", "g", "a", "r", " ", "$", "5", "0", ".", "0", "0", "1", ",", "5", "0">> >>

TextTwice == << <<"M", "o", "v", "i", "m", "i", "e", "n", "t", "o", "s">>,
                <<"1", "5", "/", "0", "1", "/", "2", "0", "2", "5", " ", "U", "B", "E", "R", " ", "$", "9">>,
                <<"1", "5", "/", "0", "1", "/", "2", "0", "2", "5", " ", "U", "B", "E", "R", " ", "$", "9">> >>

TextOne == << <<"N", "u", "e", "v", "o", "s", " ", "m", "o", "v", "i", "m", "i", "e", "n", "t", "o", "s">>,
             <<"0", "3", "/", "0", "2", "/", "2", "0", "2", "5", " ", "6", "5", "4", "3", "2", "1", "P", "A", "G", "O", " ", "P", "S", "E", " ", "$", " ", "2", "0", ".", "0", "0", "0", ",", "0", "0">> >>

TextNone == << <<"M", "o", "v", "i", "m", "i", "e", "n", "t", "o", "s">>,
               <<"1", "2", "3", "4", "5", "6", "S", "U", "P", "E", "R", "M", "E", "R", "C", "A", "D", "O", " ", "X", "Y", "Z", "$", "5", "0", ".", "0", "0", "0", ",", "0", "0">>,
               <<"T", "o", "t", "a", "l", " ", "a", " ", "p", "a", "g", "a", "r">> >>

TextDated == << <<"M", "o", "v", "i", "m", "i", "e", "n", "t", "o", "s">>,
                <<"1", "5", "/", "0", "1", "/", "2", "0", "2", "5", " ", "1", "2", "3", "4", "5", "6", "S", "U", "P", "E", "R", "M", "E", "R", "C", "A", "D", "O", " ", "X", "Y", "Z", "$", "5", "0", ".", "0", "0", "0", ",", "0", "0">>,
                <<"T", "o", "t", "a", "l", " ", "a", " ", "p", "a", "g", "a", "r">> >>

OtherDocId == <<"d", "2">>

PdfKey == <<"p", "d", "f", "s", "/", "u", "1", "/", "d", "1", "-", "a", ".", "p", "d", "f">>

Pdf(hasPassword, text) ==
    [key |-> PdfKey,
     size |-> 1,
     metadata |-> [auth0UserId |-> Some(Owner), userEmail |-> None,
                   documentId |-> Some(DocId), documentType |-> None,
                   hasPassword |-> hasPassword],
     text |-> text]

Objects ==
    {Pdf(FALSE, t) : t \in {TextTwo, TextTwice, TextNone, TextDated}}
    \cup {Pdf(TRUE, TextOne)}
    \cup {[Pdf(FALSE, TextTwo) EXCEPT !.key = <<"t", "m", "p", "/", "a", ".", "p", "d", "f">>],
          [Pdf(FALSE, TextTwo) EXCEPT !.metadata.auth0UserId = None],
          [Pdf(FALSE, TextTwo) EXCEPT !.metadata.documentId = None]}

----------------------------------------------------------------------------
(* Text extraction: extractTextFromPDF *)

QpdfFailedMessage == <<"P", "D", "F", "_", "U", "N", "L", "O", "C", "K", "_", "F", "A", "I", "L", "E", "D", ":", " ", "N", "o", " ", "s", "e", " ", "p", "u", "d", "o", " ", "d", "e", "s", "b", "l", "o", "q", "u", "e", "a", "r", " ", "e", "l", " ", "P", "D", "F">>

\* the message of the error exec rejects with: the command, then the tool's stderr
ExecMessage(command, stderr) == <<"C", "o", "m", "m", "a", "n", "d", " ", "f", "a", "i", "l", "e", "d", ":", " ">> \o command \o <<"\n">> \o stderr

\* `/tmp/<name>_${Date.now()}<ext>`
TmpFile(name, now, ext) == <<"/", "t", "m", "p", "/">> \o name \o <<"_">> \o NatToDigits(now) \o ext

Quoted(s) == <<"\"">> \o s \o <<"\"">>

\* the command line of the decrypt tool
qpdfCommand(passwordFile, inputFile, unlockedFile) ==
    <<"/", "u", "s", "r", "/", "l", "o", "c", "a", "l", "/", "b", "i", "n", "/", "q", "p", "d", "f", " ", "-", "-", "p", "a", "s", "s", "w", "o", "r", "d", "-", "f", "i", "l", "e", "=">> \o Quoted(passwordFile) \o <<" ", "-", "-", "d", "e", "c", "r", "y", "p", "t", " ">>
    \o Quoted(inputFile) \o <<" ">> \o Quoted(unlockedFile)

\* the command line of the text-extraction tool
pdftotextCommand(fileToExtract, outputFile) ==
    <<"p", "d", "f", "t", "o", "t", "e", "x", "t", " ", "-", "l", "a", "y", "o", "u", "t", " ">> \o Quoted(fileToExtract) \o <<" ">> \o Quoted(outputFile)

\* what qpdf prints when it fails
qpdfStderr(outcome) ==
    IF outcome = "unlock_bad_password" THEN <<"q", "p", "d", "f", ":", " ", "i", "n", "p", "u", "t", ".", "p", "d", "f", ":", " ", "i", "n", "v", "a", "l", "i", "d", " ", "p", "a", "s", "s", "w", "o", "r", "d">>
    ELSE IF outcome = "unlock_warnings"
    THEN <<"q", "p", "d", "f", ":", " ", "o", "p", "e", "r", "a", "t", "i", "o", "n", " ", "s", "u", "c", "c", "e", "e", "d", "e", "d", " ", "w", "i", "t", "h", " ", "w", "a", "r", "n", "i", "n", "g", "s", ";", " ", "r", "e", "s", "u", "l", "t", "i", "n", "g", " ", "f", "i", "l", "e", " ", "m", "a", "y", " ", "h", "a", "v", "e", " ", "s", "o", "m", "e", " ", "p", "r", "o", "b", "l", "e", "m", "s">>
    ELSE <<"q", "p", "d", "f", ":", " ", "i", "n", "p", "u", "t", ".", "p", "d", "f", ":", " ", "n", "o", "t", " ", "a", " ", "P", "D", "F", " ", "f", "i", "l", "e">>

\* what pdftotext prints when it fails
pdftotextStderr(outcome) ==
    IF outcome = "extract_bad_password" THEN <<"C", "o", "m", "m", "a", "n", "d", " ", "L", "i", "n", "e", " ", "E", "r", "r", "o", "r", ":", " ", "I", "n", "c", "o", "r", "r", "e", "c", "t", " ", "p", "a", "s", "s", "w", "o", "r", "d">>
    ELSE <<"S", "y", "n", "t", "a", "x", " ", "E", "r", "r", "o", "r", ":", " ", "C", "o", "u", "l", "d", "n", "'", "t", " ", "r", "e", "a", "d", " ", "x", "r", "e", "f", " ", "t", "a", "b", "l", "e">>

\* what the external calls of one extraction can do, given whether a
\* password is passed; at most one of them fails.  A tool that exits with a
\* failure may or may not have written its output file before (qpdf exits
\* with status 3 after writing the file when it had to repair the input)
ExtractOutcomes(withPassword) ==
    {"ok", "download_failed", "extract_bad_password", "extract_crashed",
     "extract_partial", "no_output"}
    \cup (IF withPassword
          THEN {"unlock_bad_password", "unlock_crashed", "unlock_warnings"} ELSE {})

\* fs.unlinkSync(path), and `if (fs.existsSync(path)) fs.unlinkSync(path)`
unlinkSync(files, path) == files \ {path}

\* the decrypt tool's temporary files are removed without the credential file
unlockCleanupKeepsCredential(files, passwordFile, inputFile) == unlinkSync(files, inputFile)

\* the removal of the credential file and of the input after the decrypt
\* tool ran, the same in the try and in the catch block
unlockCleanup(files, passwordFile, inputFile) ==
    unlinkSync(unlinkSync(files, passwordFile), inputFile)

\* extractTextFromPDF run at time now: the text or the message of the error
\* raised, the temporary files left in /tmp when it ends, and the tools
\* executed, each with its command line, the files in /tmp and the content
\* of the credential file when it started
extractTextFromPDF(body, password, outcome, now) ==
    LET inputFile    == TmpFile(<<"i", "n", "p", "u", "t">>, now, <<".", "p", "d", "f">>)
        outputFile   == TmpFile(<<"o", "u", "t", "p", "u", "t">>, now, <<".", "t", "x", "t">>)
        unlockedFile == TmpFile(<<"u", "n", "l", "o", "c", "k", "e", "d">>, now, <<".", "p", "d", "f">>)
        passwordFile == TmpFile(<<"p", "a", "s", "s", "w", "o", "r", "d">>, now, <<".", "t", "x", "t">>)
        unlocking    == Truthy(password)
        unlockFailed == outcome \in {"unlock_bad_password", "unlock_crashed", "unlock_warnings"}
        written      == {inputFile} \cup (IF unlocking THEN {passwordFile} ELSE {})
        qpdf         == [tool |-> "qpdf",
                         command |-> qpdfCommand(passwordFile, inputFile, unlockedFile),
                         files |-> written, credential |-> password]
        unlocked     == written \cup (IF unlocking /\ outcome \notin
                                            {"unlock_bad_password", "unlock_crashed"}
                                      THEN {unlockedFile} ELSE {})
        cleaned      == IF unlocking THEN unlockCleanup(unlocked, passwordFile, inputFile)
                        ELSE unlocked
        fileToExtract == IF unlocking THEN unlockedFile ELSE inputFile
        pdftotext    == [tool |-> "pdftotext",
                         command |-> pdftotextCommand(fileToExtract, outputFile),
                         files |-> cleaned, credential |-> None]
        extracted    == cleaned \cup (IF outcome \in {"ok", "extract_partial"}
                                      THEN {outputFile} ELSE {})
        left         == unlinkSync(unlinkSync(extracted, fileToExtract), outputFile)
        execs        == (IF unlocking THEN <<qpdf>> ELSE <<>>) \o <<pdftotext>>
    IN  CASE outcome = "download_failed" ->
                [ok |-> FALSE, text |-> None, message |-> <<"N", "o", "S", "u", "c", "h", "K", "e", "y">>,
                 files |-> {}, execs |-> <<>>]
          [] unlocking /\ unlockFailed ->
                [ok |-> FALSE, text |-> None, message |-> QpdfFailedMessage,
                 files |-> cleaned, execs |-> <<qpdf>>]
          [] outcome \in {"extract_bad_password", "extract_crashed", "extract_partial"} ->
                [ok |-> FALSE, text |-> None,
                 message |-> <<"T", "E", "X", "T", "_", "E", "X", "T", "R", "A", "C", "T", "I", "O", "N", "_", "F", "A", "I", "L", "E", "D", ":", " ">>
                             \o ExecMessage(pdftotext.command, pdftotextStderr(outcome)),
                 files |-> left, execs |-> execs]
          [] outcome = "no_output" ->
                [ok |-> FALSE, text |-> None,
                 message |-> <<"T", "E", "X", "T", "_", "E", "X", "T", "R", "A", "C", "T", "I", "O", "N", "_", "F", "A", "I", "L", "E", "D", ":", " ">>
                             \o <<"p", "d", "f", "t", "o", "t", "e", "x", "t", " ", "n", "o", " ", "g", "e", "n", "e", "r", "ó", " ", "a", "r", "c", "h", "i", "v", "o", " ", "d", "e", " ", "s", "a", "l", "i", "d", "a">>,
                 files |-> left, execs |-> execs]
          [] OTHER ->
                [ok |-> TRUE, text |-> Some(body), message |-> None,
                 files |-> left, execs |-> execs]

----------------------------------------------------------------------------
(* One invocation of the worker: handler and processRecord.  An action is  *)
(* the completion of the pending await followed by the synchronous code up *)
(* to the next await; pc names the pending await.                          *)

IdleInv ==
    [pc |-> "idle", delivery |-> 0, store |-> "shared", replay |-> FALSE,
     password |-> None, error |-> None, text |-> None, transactions |-> <<>>,
     i |-> 0, saved |-> 0, duplicates |-> 0, errors |-> 0, outcome |-> "none"]

NoHist == [writes |-> <<>>, stages |-> <<>>, env |-> <<>>]

\* every clock reading of an invocation (new Date(), Date.now()) is modelled
\* by the ordinal of its delivery
Now(w) == inv[w].delivery

\* the results the environment can give at the next external call of w: any
\* of `full`, except that a replaying run takes the result the observed run
\* (invocation 1) recorded at the same position, when that is a possible one
EnvChoices(w, full) ==
    LET k == Len(hist[w].env) + 1
    IN  IF inv[w].replay /\ k <= Len(hist[1].env) /\ hist[1].env[k] \in full
        THEN {hist[1].env[k]} ELSE full

\* whether a status write reaches the table.  A write that fails changes
\* nothing but what the record of the document holds (trackerCatch), so the
\* runs in which writes fail are explored where that is compared, for one
\* invocation on its own tables (the observed run of SpecNI)
WriteChoices(w) == IF inv[w].store = "observed" THEN BOOLEAN ELSE {TRUE}

\* the UpdateCommands one call of updateDocumentStatus sends: none when an
\* identifier is missing, else one unconditional update
updateDocumentStatus(auth0UserId, documentId, status, additionalData, now) ==
    IF ~Truthy(auth0UserId) \/ ~Truthy(documentId) THEN <<>>
    ELSE <<statusUpdate(auth0UserId[1], status, additionalData, now)>>

markDocumentFailed(auth0UserId, documentId, errorType, errorMessage, now) ==
    updateDocumentStatus(auth0UserId, documentId, "FAILED",
        [errorType |-> errorType, errorMessage |-> errorMessage, failedAt |-> now],
        now)

markPasswordError(auth0UserId, documentId, errorMessage, now) ==
    updateDocumentStatus(auth0UserId, documentId, "PASSWORD_ERROR",
        [errorType |-> "PASSWORD_INCORRECT", errorMessage |-> errorMessage,
         failedAt |-> now, canRetry |-> TRUE],
        now)

markDocumentCompleted(auth0UserId, documentId, transactionsExtracted, processingTimeMs, now) ==
    updateDocumentStatus(auth0UserId, documentId, "COMPLETED",
        [transactionsExtracted |-> transactionsExtracted,
         processingTimeMs |-> processingTimeMs],
        now)

\* the item after the commands were sent: a command that fails changes nothing
Send(item, commands, applied) ==
    IF commands = <<>> \/ ~applied THEN item ELSE UpdateItem(item, commands[1])

\* the status writes an invocation issued, applied or not, in order
Wrote(h, commands) ==
    [h EXCEPT !.writes = @ \o
        [k \in 1..Len(commands) |->
            [status |-> commands[k].status,
             errorType |-> IF "errorType" \in DOMAIN commands[k]
                           THEN Some(commands[k].errorType) ELSE None]]]

Stage(h, event) == [h EXCEPT !.stages = Append(@, event)]

Env(h, choice) == [h EXCEPT !.env = Append(@, choice)]

Raise(l, message) == [l EXCEPT !.pc = "done", !.outcome = "raised", !.error = Some(message)]

Return(l) == [l EXCEPT !.pc = "done", !.outcome = "returned"]

\* a tracker whose catch block rethrows
trackerRethrowsAlways(l, applied, next) ==
    IF ~applied THEN Raise(l, <<"P", "r", "o", "v", "i", "s", "i", "o", "n", "e", "d", "T", "h", "r", "o", "u", "g", "h", "p", "u", "t", "E", "x", "c", "e", "e", "d", "e", "d", "E", "x", "c", "e", "p", "t", "i", "o", "n">>) ELSE next

\* the catch block of updateDocumentStatus: the error of a failed write is
\* logged and not rethrown, the caller continues
trackerCatch(l, applied, next) == next

\* a handler that returns normally whatever processRecord did
handlerSwallows(l) == [queue EXCEPT !.acked = @ \/ l.pc = "done"]

\* the handler boundary: processRecord returned (the handler returns 200 and
\* the message is deleted) or raised (the handler rethrows, the message stays)
handler(l) == [queue EXCEPT !.acked = @ \/ (l.pc = "done" /\ l.outcome = "returned")]

Meta == object.metadata

Summary(w) ==
    [delivery |-> inv[w].delivery, outcome |-> inv[w].outcome, saved |-> inv[w].saved,
     duplicates |-> inv[w].duplicates, errors |-> inv[w].errors]

\* a test that every key passes
inAnyFolder(key) == TRUE

\* key.startsWith('pdfs/')
inPdfFolder(key) == StartsAt(key, <<"p", "d", "f", "s", "/">>, 1)

\* handler and processRecord up to the first await: a key outside pdfs/ is
\* ignored.  The slot of a finished invocation is reused; what it did is kept
\* in the archive
Start(w, store, replay, delivery) ==
    LET l == [IdleInv EXCEPT !.pc = "get_metadata", !.delivery = delivery,
                             !.store = store, !.replay = replay]
        l2 == IF ~inPdfFolder(object.key) THEN Return(l) ELSE l
    IN  /\ inv' = [inv EXCEPT ![w] = l2]
        /\ hist' = [hist EXCEPT ![w] = NoHist]
        /\ queue' = [handler(l2) EXCEPT
                        !.deliveries = @ + 1,
                        !.archive = IF inv[w].pc = "done" THEN Append(@, Summary(w)) ELSE @]
        /\ UNCHANGED <<object, passwords, uploads, txStore, px>>

\* the queue hands the message to the handler: to the lowest free slot, or to
\* the slot of a finished invocation when none is free
Deliver(w) ==
    /\ queue.deliveries < MaxDeliveries
    /\ \/ inv[w].pc = "idle" /\ \A v \in Invocations : inv[v].pc = "idle" => w <= v
       \/ inv[w].pc = "done" /\ \A v \in Invocations : inv[v].pc # "idle"
    /\ Start(w, "shared", FALSE, queue.deliveries + 1)

\* a processRecord that goes on whatever the metadata holds
metadataChecksSkipped(l, metadata) == [l EXCEPT !.pc = "mark_processing"]

\* the checks of the metadata before the first status write: throw when the
\* owner or the document id is missing
metadataChecks(l, metadata) ==
    IF ~Truthy(metadata.auth0UserId)
    THEN Raise(l, <<"a", "u", "t", "h", "0", "U", "s", "e", "r", "I", "d", " ", "e", "s", " ", "r", "e", "q", "u", "e", "r", "i", "d", "o", " ", "e", "n", " ", "m", "e", "t", "a", "d", "a", "t", "a">>)
    ELSE IF ~Truthy(metadata.documentId)
         THEN Raise(l, <<"d", "o", "c", "u", "m", "e", "n", "t", "I", "d", " ", "e", "s", " ", "r", "e", "q", "u", "e", "r", "i", "d", "o", " ", "e", "n", " ", "m", "e", "t", "a", "d", "a", "t", "a">>)
    ELSE [l EXCEPT !.pc = "mark_processing"]

\* await s3.send(GetObjectCommand), then the metadata checks
GetMetadata(w) ==
    /\ inv[w].pc = "get_metadata"
    /\ \E c \in EnvChoices(w, {"meta_ok", "meta_failed"}) :
        LET l == inv[w]
            l2 == IF c = "meta_failed" THEN Raise(l, <<"N", "o", "S", "u", "c", "h", "K", "e", "y">>)
                  ELSE metadataChecks(l, Meta)
        IN  /\ inv' = [inv EXCEPT ![w] = l2]
            /\ hist' = [hist EXCEPT ![w] = Env(@, c)]
            /\ queue' = handler(l2)
    /\ UNCHANGED <<object, passwords, uploads, txStore, px>>

\* await updateDocumentStatus(PROCESSING, {fileSize, processingStartedAt})
MarkProcessing(w) ==
    /\ inv[w].pc = "mark_processing"
    /\ \E applied \in WriteChoices(w) :
        LET l == inv[w]
            commands == updateDocumentStatus(Meta.auth0UserId, Meta.documentId, "PROCESSING",
                            [fileSize |-> object.size, processingStartedAt |-> Now(w)], Now(w))
            next == IF Meta.hasPassword THEN [l EXCEPT !.pc = "get_password"]
                    ELSE [l EXCEPT !.pc = "mark_stage"]
            l2 == trackerCatch(l, applied, next)
            h  == Wrote(hist[w], commands)
        IN  /\ uploads' = [uploads EXCEPT ![l.store] = Send(@, commands, applied)]
            /\ inv' = [inv EXCEPT ![w] = l2]
            /\ hist' = [hist EXCEPT ![w] =
                    IF l2.pc = "get_password" THEN Stage(h, "credentials_start") ELSE h]
            /\ queue' = handler(l2)
    /\ UNCHANGED <<object, passwords, txStore, px>>

\* await dynamo.send(GetCommand) on document-passwords; an error is logged only
GetPassword(w) ==
    /\ inv[w].pc = "get_password"
    /\ \E c \in EnvChoices(w, {"credential_error"} \cup
                  (IF passwords = None THEN {"credential_absent"} ELSE {"credential_found"})) :
        /\ inv' = [inv EXCEPT ![w] =
                [@ EXCEPT !.pc = "mark_stage",
                          !.password = IF c = "credential_found" THEN passwords ELSE None]]
        /\ hist' = [hist EXCEPT ![w] = Stage(Env(@, c), "credentials_end")]
    /\ UNCHANGED <<object, passwords, uploads, txStore, queue, px>>

\* a status that follows the has-password flag alone
stageStatusOfFlag(hasPassword, password) ==
    IF hasPassword THEN "DECRYPTING" ELSE "EXTRACTING_TEXT"

\* the status written before extraction
stageStatus(hasPassword, password) ==
    IF hasPassword /\ Truthy(password) THEN "DECRYPTING" ELSE "EXTRACTING_TEXT"

\* await updateDocumentStatus(DECRYPTING) or (EXTRACTING_TEXT), then the
\* call of extractTextFromPDF
MarkStage(w) ==
    /\ inv[w].pc = "mark_stage"
    /\ \E applied \in WriteChoices(w) :
        LET l == inv[w]
            commands == updateDocumentStatus(Meta.auth0UserId, Meta.documentId,
                            stageStatus(Meta.hasPassword, l.password), <<>>, Now(w))
            l2 == trackerCatch(l, applied, [l EXCEPT !.pc = "extract"])
            h  == Wrote(hist[w], commands)
        IN  /\ uploads' = [uploads EXCEPT ![l.store] = Send(@, commands, applied)]
            /\ inv' = [inv EXCEPT ![w] = l2]
            /\ hist' = [hist EXCEPT ![w] =
                    IF l2.pc = "extract" THEN Stage(h, "extract_start") ELSE h]
            /\ queue' = handler(l2)
    /\ UNCHANGED <<object, passwords, txStore, px>>

\* await extractTextFromPDF(bucket, key, {password})
Extract(w) ==
    /\ inv[w].pc = "extract"
    /\ \E c \in EnvChoices(w, ExtractOutcomes(Truthy(inv[w].password))) :
        LET r == extractTextFromPDF(object.text, inv[w].password, c, Now(w))
        IN  /\ inv' = [inv EXCEPT ![w] =
                    IF r.ok THEN [@ EXCEPT !.pc = "mark_parsing", !.text = r.text]
                    ELSE [@ EXCEPT !.pc = "mark_extract_error", !.error = Some(r.message)]]
            /\ hist' = [hist EXCEPT ![w] =
                    Stage(Env(@, c), IF r.ok THEN "extract_end" ELSE "extract_failed")]
    /\ UNCHANGED <<object, passwords, uploads, txStore, queue, px>>

\* the test of the catch block around extractTextFromPDF
isPasswordError(message) ==
    Includes(message, <<"p", "a", "s", "s", "w", "o", "r", "d">>) \/ Includes(message, <<"c", "o", "n", "t", "r", "a", "s", "e", "ñ", "a">>)

\* the test, computed once for each message extractTextFromPDF can raise
passwordErrors ==
    [message \in {extractTextFromPDF(o.text, p, c, now).message :
                     o \in Objects, p \in {None, Some(Password)},
                     c \in ExtractOutcomes(TRUE), now \in Clock}
        |-> isPasswordError(message)]

\* a catch block that records every extraction failure under the name of
\* the decrypt tool
extractErrorWriteQpdf(metadata, message, now) ==
    markDocumentFailed(metadata.auth0UserId, metadata.documentId,
        "QPDF_FAILED", message, now)

\* the status write of the catch block around extractTextFromPDF
extractErrorWrite(metadata, message, now) ==
    IF (IF message \in DOMAIN passwordErrors THEN passwordErrors[message]
        ELSE isPasswordError(message))
    THEN markPasswordError(metadata.auth0UserId, metadata.documentId,
             <<"E", "r", "r", "o", "r", " ", "d", "e", " ", "c", "o", "n", "t", "r", "a", "s", "e", "ñ", "a", ":", " ">> \o message, now)
    ELSE markDocumentFailed(metadata.auth0UserId, metadata.documentId,
             "EXTRACTION_FAILED", message, now)

\* a catch block that records the failure and goes on
extractCatchSwallows(l, message) == [l EXCEPT !.pc = "mark_parsing", !.text = Some(object.text)]

\* the end of the catch block around extractTextFromPDF: throw error
extractCatch(l, message) == Raise(l, message)

\* the catch block around extractTextFromPDF: await markPasswordError or
\* markDocumentFailed(EXTRACTION_FAILED), then rethrow
MarkExtractError(w) ==
    /\ inv[w].pc = "mark_extract_error"
    /\ \E applied \in WriteChoices(w) :
        LET l == inv[w]
            message == l.error[1]
            commands == extractErrorWrite(Meta, message, Now(w))
            l2 == trackerCatch(l, applied, extractCatch(l, message))
        IN  /\ uploads' = [uploads EXCEPT ![l.store] = Send(@, commands, applied)]
            /\ inv' = [inv EXCEPT ![w] = l2]
            /\ hist' = [hist EXCEPT ![w] = Wrote(@, commands)]
            /\ queue' = handler(l2)
    /\ UNCHANGED <<object, passwords, txStore, px>>

NoTransactionsMessage == <<"N", "o", " ", "s", "e", " ", "e", "n", "c", "o", "n", "t", "r", "a", "r", "o", "n", " ", "t", "r", "a", "n", "s", "a", "c", "c", "i", "o", "n", "e", "s">>

\* a catch block that records every error it catches
parseCatchMarksAlways(message) == TRUE

\* the test of the catch block around parseTransactions: the error thrown
\* for an empty result has already been recorded
parseCatchMarks(message) == message # NoTransactionsMessage

\* the status write of the catch block around parseTransactions
parseCatchWrite(metadata, message, now) ==
    IF parseCatchMarks(message)
    THEN markDocumentFailed(metadata.auth0UserId, metadata.documentId,
             "PARSING_FAILED", message, now)
    ELSE <<>>

\* metadata['document-type'] || 'default'
documentTypeOf(metadata) ==
    IF Truthy(metadata.documentType) THEN metadata.documentType[1] ELSE <<"d", "e", "f", "a", "u", "l", "t">>

\* the metadata processRecord passes to parseTransactions
parseMetadata(metadata) ==
    [sourceDocumentId |-> metadata.documentId, auth0UserId |-> metadata.auth0UserId,
     userEmail |-> metadata.userEmail, documentType |-> documentTypeOf(metadata)]

\* parseTransactions on the texts, metadata and clock readings of the model,
\* evaluated once for each
\* the same upload stored as another document
OtherDocument(o) == [o EXCEPT !.metadata.documentId = Some(OtherDocId)]

parsed ==
    [text \in {o.text : o \in Objects},
     metadata \in {parseMetadata(o.metadata) : o \in Objects \cup {OtherDocument(o) : o \in Objects}},
     now \in Clock |-> parseTransactions(text, metadata, now)]

\* the entry of saveTransactions: the counters and the first item
saveTransactions(l, transactions) ==
    [l EXCEPT !.pc = "save_get", !.transactions = transactions,
              !.i = 1, !.saved = 0, !.duplicates = 0, !.errors = 0]

\* await updateDocumentStatus(PARSING), then parseTransactions, then either
\* the empty-result branch or the call of saveTransactions
MarkParsing(w) ==
    /\ inv[w].pc = "mark_parsing"
    /\ \E applied \in WriteChoices(w),
          transactions \in {parsed[inv[w].text[1], parseMetadata(Meta), Now(w)]} :
        LET l == inv[w]
            commands == updateDocumentStatus(Meta.auth0UserId, Meta.documentId, "PARSING",
                            <<>>, Now(w))
            next == IF Len(transactions) = 0
                    THEN [l EXCEPT !.pc = "mark_no_transactions"]
                    ELSE saveTransactions(l, transactions)
            l2 == trackerCatch(l, applied, next)
            h  == Wrote(hist[w], commands)
            h2 == IF l2.pc = "done" THEN h ELSE Stage(Stage(h, "parse_start"), "parse_end")
        IN  /\ uploads' = [uploads EXCEPT ![l.store] = Send(@, commands, applied)]
            /\ inv' = [inv EXCEPT ![w] = l2]
            /\ hist' = [hist EXCEPT ![w] =
                    IF l2.pc = "save_get" THEN Stage(h2, "save_start") ELSE h2]
            /\ queue' = handler(l2)
    /\ UNCHANGED <<object, passwords, txStore, px>>

\* await markDocumentFailed(NO_TRANSACTIONS_FOUND), then the throw, which the
\* catch block around parseTransactions catches, tests and rethrows
MarkNoTransactions(w) ==
    /\ inv[w].pc = "mark_no_transactions"
    /\ \E applied \in WriteChoices(w) :
        LET l == inv[w]
            commands == markDocumentFailed(Meta.auth0UserId, Meta.documentId,
                            "NO_TRANSACTIONS_FOUND",
                            <<"N", "o", " ", "s", "e", " ", "e", "n", "c", "o", "n", "t", "r", "a", "r", "o", "n", " ", "t", "r", "a", "n", "s", "a", "c", "c", "i", "o", "n", "e", "s", " ", "e", "n", " ", "e", "l", " ", "d", "o", "c", "u", "m", "e", "n", "t", "o">>, Now(w))
                        \o parseCatchWrite(Meta, NoTransactionsMessage, Now(w))
            l2 == trackerCatch(l, applied, Raise(l, NoTransactionsMessage))
        IN  /\ uploads' = [uploads EXCEPT ![l.store] = Send(@, commands, applied)]
            /\ inv' = [inv EXCEPT ![w] = l2]
            /\ hist' = [hist EXCEPT ![w] = Wrote(@, commands)]
            /\ queue' = handler(l2)
    /\ UNCHANGED <<object, passwords, txStore, px>>

----------------------------------------------------------------------------
(* saveTransactions *)

\* the primary key of finance-transactions
TxKey(t) == [auth0UserId |-> t.auth0UserId, transactionId |-> t.transactionId]

\* a put without a condition
putConditionAbsent(table, t) == TRUE

\* ConditionExpression: 'attribute_not_exists(transactionId)', evaluated on
\* the stored item with the key of the item being put
putCondition(table, t) == TxKey(t) \notin DOMAIN table

\* a loop that ends after its first item
NextItemStops(l) == [l EXCEPT !.pc = "mark_completed"]

\* the end of one iteration of the loop: the next item, or the return of
\* saveTransactions to its caller
NextItem(l) ==
    IF l.i < Len(l.transactions) THEN [l EXCEPT !.pc = "save_get", !.i = @ + 1]
    ELSE [l EXCEPT !.pc = "mark_completed"]

\* an existing item counted with the errors
existingCountsAsError(l) == [l EXCEPT !.errors = @ + 1]

\* if (existing.Item) { duplicates++; continue; }
existingCounts(l) == [l EXCEPT !.duplicates = @ + 1]

\* a store error that leaves the counters as they are
storeErrorUncounted(l) == l

\* the catch block of one iteration, for an error that is not a failed
\* condition: errors++
storeErrorCounts(l) == [l EXCEPT !.errors = @ + 1]

SaveStage(h, l2) == IF l2.pc = "mark_completed" THEN Stage(h, "save_end") ELSE h

\* await dynamo.send(GetCommand): an existing item is a duplicate
SaveGet(w) ==
    /\ inv[w].pc = "save_get"
    /\ \E c \in EnvChoices(w, {"get_ok", "get_error"}) :
        LET l == inv[w]
            t == l.transactions[l.i]
            l2 == IF c = "get_error" THEN NextItem(storeErrorCounts(l))
                  ELSE IF TxKey(t) \in DOMAIN txStore[l.store]
                       THEN NextItem(existingCounts(l))
                  ELSE [l EXCEPT !.pc = "save_put"]
        IN  /\ inv' = [inv EXCEPT ![w] = l2]
            /\ hist' = [hist EXCEPT ![w] = SaveStage(Env(@, c), l2)]
    /\ UNCHANGED <<object, passwords, uploads, txStore, queue, px>>

\* await dynamo.send(PutCommand) with the condition: a failed condition is a
\* duplicate, any other error is counted
SavePut(w) ==
    /\ inv[w].pc = "save_put"
    /\ \E c \in EnvChoices(w, {"put_ok", "put_error"}) :
        LET l == inv[w]
            t == l.transactions[l.i]
            stored == c = "put_ok" /\ putCondition(txStore[l.store], t)
            l2 == IF c = "put_error" THEN NextItem(storeErrorCounts(l))
                  ELSE IF stored THEN NextItem([l EXCEPT !.saved = @ + 1])
                  ELSE NextItem([l EXCEPT !.duplicates = @ + 1])
        IN  /\ txStore' = IF stored
                          THEN [txStore EXCEPT ![l.store] = (TxKey(t) :> t) @@ @]
                          ELSE txStore
            /\ inv' = [inv EXCEPT ![w] = l2]
            /\ hist' = [hist EXCEPT ![w] = SaveStage(Env(@, c), l2)]
    /\ UNCHANGED <<object, passwords, uploads, queue, px>>

\* what processRecord passes to markDocumentCompleted after the save:
\* transactions.length and Date.now() - processingStartTime
completedArguments(l, now) ==
    [transactionsExtracted |-> Len(l.transactions), processingTimeMs |-> now - l.delivery]

\* await markDocumentCompleted(transactions.length, processingTimeMs), then
\* the return of processRecord
MarkCompleted(w) ==
    /\ inv[w].pc = "mark_completed"
    /\ \E applied \in WriteChoices(w) :
        LET l == inv[w]
            passed == completedArguments(l, Now(w))
            commands == markDocumentCompleted(Meta.auth0UserId, Meta.documentId,
                            passed.transactionsExtracted, passed.processingTimeMs, Now(w))
            l2 == trackerCatch(l, applied, Return(l))
        IN  /\ uploads' = [uploads EXCEPT ![l.store] = Send(@, commands, applied)]
            /\ inv' = [inv EXCEPT ![w] = l2]
            /\ hist' = [hist EXCEPT ![w] = Wrote(@, commands)]
            /\ queue' = handler(l2)
    /\ UNCHANGED <<object, passwords, txStore, px>>

\* the steps of a running invocation
Step(w) ==
    \/ GetMetadata(w)
    \/ MarkProcessing(w)
    \/ GetPassword(w)
    \/ MarkStage(w)
    \/ Extract(w)
    \/ MarkExtractError(w)
    \/ MarkParsing(w)
    \/ MarkNoTransactions(w)
    \/ SaveGet(w)
    \/ SavePut(w)
    \/ MarkCompleted(w)

----------------------------------------------------------------------------
(* The deployed pipeline: one message, delivered at least once, to           *)
(* invocations that run concurrently on the same tables.                     *)

NoPx == [runs |-> 0, at |-> <<>>, results |-> <<>>]

Init ==
    /\ object \in Objects
    /\ passwords \in {None, Some(Password)}
    /\ (~object.metadata.hasPassword => passwords = None)
    /\ uploads = [s \in Stores |-> uploadRecord(Owner)]
    /\ txStore = [s \in Stores |-> <<>>]
    /\ queue = [deliveries |-> 0, acked |-> FALSE, archive |-> <<>>]
    /\ inv = [w \in Invocations |-> IdleInv]
    /\ hist = [w \in Invocations |-> NoHist]
    /\ px = NoPx

Next == \E w \in Invocations : Deliver(w) \/ Step(w)

Spec == Init /\ [][Next]_vars

----------------------------------------------------------------------------
(* saveTransactions called twice in sequence with the same batch: call 1   *)
(* is slot 1, call 2 is slot 2; the "reference" copy of the table is the   *)
(* content of the table when the second call starts.                       *)

SaveFirst ==
    /\ inv[1].pc = "idle"
    /\ \E transactions \in {parsed[object.text, parseMetadata(Meta), 1]} :
        /\ Len(transactions) > 0
        /\ inv' = [inv EXCEPT ![1] = saveTransactions(IdleInv, transactions)]
    /\ UNCHANGED <<object, passwords, uploads, txStore, queue, hist, px>>

SaveSecond ==
    /\ inv[1].pc = "mark_completed"
    /\ inv[2].pc = "idle"
    /\ inv' = [inv EXCEPT ![2] = saveTransactions(IdleInv, inv[1].transactions)]
    /\ txStore' = [txStore EXCEPT !["reference"] = txStore["shared"]]
    /\ UNCHANGED <<object, passwords, uploads, queue, hist, px>>

NextSave ==
    \/ SaveFirst
    \/ SaveSecond
    \/ \E w \in Invocations : SaveGet(w) \/ SavePut(w)

SpecSave == Init /\ [][NextSave]_vars

----------------------------------------------------------------------------
(* parseTransactions applied to the text of the document at clock readings *)
(* chosen freely, MaxParses times.                                         *)

Parse ==
    /\ px.runs < MaxParses
    /\ \E now \in Clock :
        px' = [runs |-> px.runs + 1, at |-> Append(px.at, now),
               results |-> Append(px.results, parsed[object.text, parseMetadata(Meta), now])]
    /\ UNCHANGED <<object, passwords, uploads, txStore, queue, inv, hist>>

NextParse == Parse

SpecParse == Init /\ [][NextParse]_vars

----------------------------------------------------------------------------
(* Two runs of one invocation on the same inputs, each on its own copy of  *)
(* the tables: the observed run, in which any status write may fail, then  *)
(* the reference run, in which none fails and the environment answers as   *)
(* it did in the observed run.                                             *)

RunObserved ==
    /\ inv[1].pc = "idle"
    /\ Start(1, "observed", FALSE, 1)

RunReference ==
    /\ inv[1].pc = "done"
    /\ inv[2].pc = "idle"
    /\ Start(2, "reference", TRUE, 1)

NextNI == RunObserved \/ RunReference \/ \E w \in Invocations : Step(w)

SpecNI == Init /\ [][NextNI]_vars

----------------------------------------------------------------------------
(* Properties of the deployed pipeline (Spec) *)

StoredStatus(s) == uploads[s]["status"]

\* C1: once the stored status of the document is COMPLETED, no later status
\* write of the pipeline changes it, whatever the deliveries of the message
C1_CompletedIsTerminal ==
    [][StoredStatus("shared") = Some("COMPLETED")
        => StoredStatus("shared")' = Some("COMPLETED")]_vars

\* the invocations that have run or are running: the archived ones and the
\* ones in the slots
Ran ==
    {queue.archive[k] : k \in DOMAIN queue.archive}
    \cup {Summary(w) : w \in {v \in Invocations : inv[v].pc # "idle"}}

RECURSIVE SumOver(_, _)
SumOver(S, field) ==
    IF S = {} THEN 0
    ELSE LET r == CHOOSE x \in S : TRUE IN r[field] + SumOver(S \ {r}, field)

\* the identities of the transactions of the document
Identities(w) == {TxKey(inv[w].transactions[k]) : k \in DOMAIN inv[w].transactions}

SaveReturned(w) == inv[w].pc = "mark_completed" \/ (inv[w].pc = "done" /\ "save_end" \in
                       {hist[w].stages[k] : k \in DOMAIN hist[w].stages})

NoStoreError(w) ==
    \A k \in DOMAIN hist[w].env : hist[w].env[k] \notin {"get_error", "put_error"}

PutsAnswered(w) == Cardinality({k \in DOMAIN hist[w].env : hist[w].env[k] = "put_ok"})

\* C2: when two invocations save the transactions of the same document
\* concurrently, every stored identity is stored once with the content
\* parsed for it, the saved counts of all invocations add up to the number of
\* stored identities at every moment, and once both saves have returned
\* without a store error every identity is stored and each invocation has
\* counted every transaction as saved or as duplicate
C2_ConcurrentSavesStoreOnce ==
    /\ SumOver(Ran, "saved") = Cardinality(DOMAIN txStore["shared"])
    /\ \A key \in DOMAIN txStore["shared"] : TxKey(txStore["shared"][key]) = key
    /\ (queue.archive = <<>> /\ \A w \in Invocations : SaveReturned(w) /\ NoStoreError(w))
        => /\ DOMAIN txStore["shared"] = Identities(1)
           /\ Identities(1) = Identities(2)
           /\ inv[1].saved + inv[2].saved = Cardinality(Identities(1))
           /\ \A w \in Invocations :
                 inv[w].saved + inv[w].duplicates = Len(inv[w].transactions)

\* both invocations passed the existence read of the same transaction before
\* either inserted it: one insert was refused by the condition
C2_Witness ==
    /\ \A w \in Invocations : SaveReturned(w) /\ NoStoreError(w)
    /\ \E w \in Invocations : PutsAnswered(w) > inv[w].saved
    /\ inv[1].saved > 0
    /\ inv[2].saved > 0

----------------------------------------------------------------------------
(* Properties of saveTransactions called twice (SpecSave) *)

\* no two transactions of the batch have the same identity
DistinctIdentities(transactions) ==
    \A j, k \in DOMAIN transactions :
        TxKey(transactions[j]) = TxKey(transactions[k]) => j = k

Counts(w) == <<inv[w].saved, inv[w].duplicates, inv[w].errors>>

----------------------------------------------------------------------------
(* Properties of parseTransactions run again (SpecParse) *)

Ids(transactions) == [k \in DOMAIN transactions |-> transactions[k].transactionId]

\* the fields the identity of a transaction is computed from
IdentityFields(t) ==
    <<t.auth0UserId, t.date, t.amount, t.merchant, t.authNumber, t.sourceDocumentId>>

AllParsed == UNION {{px.results[r][k] : k \in DOMAIN px.results[r]} : r \in DOMAIN px.results}

\* C4: parseTransactions applied again to the same text with the same
\* context gives the same sequence of transactionIds, whatever the times of
\* the two runs and the createdAt stamps; two transactions with the same
\* owner, date, amount, merchant, authorization code and source document
\* have the same transactionId
C4_ParseTwiceSameIds ==
    /\ \A r, q \in DOMAIN px.results : Ids(px.results[r]) = Ids(px.results[q])
    /\ \A t, u \in AllParsed :
          IdentityFields(t) = IdentityFields(u) => t.transactionId = u.transactionId

\* the text was parsed at two different times and gave transactions whose
\* stamps differ
C4_Witness ==
    /\ px.runs = MaxParses
    /\ px.at[1] # px.at[px.runs]
    /\ Len(px.results[1]) > 1
    /\ px.results[1][1].createdAt # px.results[px.runs][1].createdAt
    /\ px.results[1][1].transactionId = px.results[px.runs][1].transactionId

----------------------------------------------------------------------------
(* Status writes that fail do not change what an invocation does (SpecNI) *)

\* what an invocation did apart from the status table
Business(w) ==
    [outcome |-> inv[w].outcome, error |-> inv[w].error, counts |-> Counts(w),
     stored |-> txStore[inv[w].store], calls |-> hist[w].env,
     stages |-> hist[w].stages, issued |-> hist[w].writes]

\* C5: whichever of its status writes fail, an invocation returns or raises
\* as the run in which every status write succeeds, with the same error,
\* after the same external calls, and leaves the same transactions stored
C5_TrackerFailuresDoNotInterfere ==
    (inv[1].pc = "done" /\ inv[2].pc = "done") => Business(1) = Business(2)

\* the observed run lost status writes, its last one included, and stored
\* transactions
C5_Witness ==
    /\ inv[1].pc = "done"
    /\ inv[2].pc = "done"
    /\ inv[1].outcome = "returned"
    /\ txStore["observed"] # <<>>
    /\ StoredStatus("observed") = Some("UPLOADED")
    /\ StoredStatus("reference") = Some("COMPLETED")

----------------------------------------------------------------------------
(* Properties of one invocation of the deployed pipeline (Spec) *)

Statuses(w) == [k \in DOMAIN hist[w].writes |-> hist[w].writes[k].status]

Stages(w) == hist[w].stages

Has(seq, x) == \E k \in DOMAIN seq : seq[k] = x

Last(seq) == seq[Len(seq)]

IsPrefix(p, seq) == Len(p) <= Len(seq) /\ SubSeq(seq, 1, Len(p)) = p

FailureStatuses == {"FAILED", "PASSWORD_ERROR"}

Raised(w) == inv[w].pc = "done" /\ inv[w].outcome = "raised"

\* C6: an invocation that has written PROCESSING and raises has issued a
\* FAILED or PASSWORD_ERROR write before; an invocation whose extraction
\* failed or whose parse found nothing ends raising, never returning; and
\* the message is deleted only when an invocation returned: the handler
\* raises when processRecord raises
C6_FailuresRecordedAndRaised ==
    /\ \A w \in Invocations :
        /\ (Raised(w) /\ Has(Statuses(w), "PROCESSING"))
              => \E k \in DOMAIN Statuses(w) : Statuses(w)[k] \in FailureStatuses
        /\ (inv[w].pc = "done"
            /\ (Has(Stages(w), "extract_failed")
                \/ (Has(Stages(w), "parse_end") /\ ~Has(Stages(w), "save_start"))))
              => inv[w].outcome = "raised"
    /\ queue.acked => \E r \in Ran : r.outcome = "returned"

\* an extraction failed after PROCESSING was written: the failure was
\* recorded, the invocation raised and the message is still in the queue
C6_Witness ==
    /\ \E w \in Invocations :
        /\ Raised(w)
        /\ Has(Stages(w), "extract_failed")
        /\ Statuses(w) = <<"PROCESSING", "EXTRACTING_TEXT", "FAILED">>
    /\ \A w \in Invocations : inv[w].pc = "done"
    /\ ~queue.acked

\* the status sequences of an invocation without a failure
StatusPaths ==
    {<<"PROCESSING", s, "PARSING", "COMPLETED">> : s \in {"DECRYPTING", "EXTRACTING_TEXT"}}

StagePaths ==
    {c \o <<"extract_start", "extract_end", "parse_start", "parse_end",
            "save_start", "save_end">> :
        c \in {<<>>, <<"credentials_start", "credentials_end">>}}

\* C8: the stages of an invocation start and end in the order credentials,
\* extraction, parsing, persistence, each starting after the one before it
\* ended; nothing starts after a failed extraction; persistence starts only
\* with a non-empty list of parsed transactions; COMPLETED is written only
\* after the save loop has gone through the whole batch
C8_StageOrder ==
    \A w \in Invocations :
        LET s == Stages(w)
            l == inv[w]
        IN  /\ \E p \in StagePaths :
                \/ IsPrefix(s, p)
                \/ /\ s # <<>>
                   /\ Last(s) = "extract_failed"
                   /\ IsPrefix(Append(SubSeq(s, 1, Len(s) - 1), "extract_end"), p)
            /\ Has(s, "save_start") => Len(l.transactions) > 0
            /\ (Has(s, "parse_end") /\ l.transactions = <<>>) => ~Has(s, "save_start")
            /\ Has(Statuses(w), "COMPLETED")
                  => /\ Has(s, "save_end")
                     /\ l.saved + l.duplicates + l.errors = Len(l.transactions)

\* an invocation resolved the credential, extracted, parsed, saved two
\* transactions and wrote COMPLETED
C8_Witness ==
    \E w \in Invocations :
        /\ Stages(w) \in StagePaths
        /\ Has(Stages(w), "credentials_end")
        /\ Has(Statuses(w), "COMPLETED")
        /\ inv[w].saved > 0

\* the failure writes an invocation issued
FailureWrites(w) ==
    SelectSeq(hist[w].writes, LAMBDA wr : wr.status \in FailureStatuses)

\* the decrypt tool was run and refused the password
UnlockRefused(w) ==
    /\ hist[w].env # <<>>
    /\ Last(hist[w].env) = "unlock_bad_password"
    /\ isPasswordError(qpdfStderr(Last(hist[w].env)))

\* C9: when the decrypt tool fails with a diagnostic that names the
\* password, the failure is written as PASSWORD_ERROR with errorType
\* PASSWORD_INCORRECT, not as FAILED with EXTRACTION_FAILED
C9_UnlockFailureIsPasswordError ==
    \A w \in Invocations :
        (UnlockRefused(w) /\ inv[w].pc = "done")
            => FailureWrites(w) =
                  <<[status |-> "PASSWORD_ERROR", errorType |-> Some("PASSWORD_INCORRECT")]>>

\* parseTransactions returned the empty list in invocation w
ParsedNothing(w) == Has(Stages(w), "parse_end") /\ inv[w].transactions = <<>>

\* C10: an invocation whose parse returns the empty list issues one failure
\* write, FAILED with NO_TRANSACTIONS_FOUND, does not call saveTransactions,
\* stores nothing and does not write COMPLETED
C10_EmptyParseFailsOnce ==
    \A w \in Invocations :
        /\ ParsedNothing(w)
              => /\ ~Has(Stages(w), "save_start")
                 /\ ~Has(Statuses(w), "COMPLETED")
                 /\ Counts(w) = <<0, 0, 0>>
                 /\ inv[w].pc \in {"mark_no_transactions", "done"}
        /\ (ParsedNothing(w) /\ inv[w].pc = "done")
              => /\ FailureWrites(w) =
                       <<[status |-> "FAILED", errorType |-> Some("NO_TRANSACTIONS_FOUND")]>>
                 /\ Last(hist[w].writes).status = "FAILED"
                 /\ Raised(w)

\* a document without transaction lines went through extraction and parsing
\* and the invocation ended
C10_Witness ==
    \E w \in Invocations :
        /\ ParsedNothing(w)
        /\ inv[w].pc = "done"
        /\ Statuses(w) = <<"PROCESSING", "EXTRACTING_TEXT", "PARSING", "FAILED">>
        /\ txStore["shared"] = <<>>

----------------------------------------------------------------------------
(* extractTextFromPDF on its own (SpecExtract): the call is made with a     *)
(* password, or with none, and each outcome of its external calls; with a  *)
(* password, the same call is made again with another password (the twin). *)

\* how many calls of extractTextFromPDF a behaviour makes
MaxExtracts == 1

OtherPassword == <<"0", "t", "h", "e", "r">>

ExtractRun ==
    /\ px.runs < MaxExtracts
    /\ \E password \in {None, Some(Password), Some(OtherPassword)}, now \in Clock :
        \E outcome \in ExtractOutcomes(Truthy(password)) :
            px' = [runs |-> px.runs + 1,
                   at |-> Append(px.at, [password |-> password, outcome |-> outcome,
                                         now |-> now]),
                   results |-> Append(px.results,
                       [call |-> extractTextFromPDF(object.text, password, outcome, now),
                        twin |-> extractTextFromPDF(object.text,
                                     IF password = None THEN None
                                     ELSE IF password = Some(Password)
                                          THEN Some(OtherPassword) ELSE Some(Password),
                                     outcome, now)])]
    /\ UNCHANGED <<object, passwords, uploads, txStore, queue, inv, hist>>

NextExtract == ExtractRun

SpecExtract == Init /\ [][NextExtract]_vars

\* C11: when extractTextFromPDF returns or raises, none of the temporary
\* files of the call is left in /tmp
C11_NoTemporaryFileLeft ==
    \A r \in DOMAIN px.results : px.results[r].call.files = {}

Commands(result) == [k \in DOMAIN result.execs |-> result.execs[k].command]

\* C12: the password reaches the decrypt tool in the credential file only:
\* the command lines of the tools do not contain it and are the same when
\* the call is made with another password, the credential file holds the
\* password when the decrypt tool starts, and it is gone when the
\* text-extraction tool starts and when the call ends
C12_PasswordOnlyInCredentialFile ==
    \A r \in DOMAIN px.results :
        LET call == px.results[r].call
            password == px.at[r].password
            passwordFile == TmpFile(<<"p", "a", "s", "s", "w", "o", "r", "d">>, px.at[r].now, <<".", "t", "x", "t">>)
        IN  /\ Commands(call) = Commands(px.results[r].twin)
            /\ passwordFile \notin call.files
            /\ \A k \in DOMAIN call.execs :
                LET e == call.execs[k]
                IN  /\ Truthy(password) => ~Includes(e.command, password[1])
                    /\ e.tool = "qpdf" => (passwordFile \in e.files /\ e.credential = password)
                    /\ e.tool = "pdftotext" => passwordFile \notin e.files

\* the call was made with a password, the decrypt tool succeeded and the
\* text-extraction tool was started
C12_Witness ==
    \E r \in DOMAIN px.results :
        /\ Truthy(px.at[r].password)
        /\ px.results[r].call.ok
        /\ Len(px.results[r].call.execs) > 1
        /\ px.results[r].call.execs[1].credential # px.results[r].twin.execs[1].credential

----------------------------------------------------------------------------
(* More properties of saveTransactions (SpecSave) *)

\* the transactions of the batch the call has started on: one existence
\* read each
Attempts(w) ==
    Cardinality({k \in DOMAIN hist[w].env : hist[w].env[k] \in {"get_ok", "get_error"}})

\* C13: whatever store calls fail, saveTransactions does not raise, goes
\* through every transaction of the batch, and returns counts with
\* saved + duplicates + errors equal to the length of the batch
C13_SaveCountsEveryItem ==
    \A w \in Invocations :
        LET l == inv[w]
            counted == l.saved + l.duplicates + l.errors
        IN  /\ l.outcome # "raised"
            /\ l.pc = "save_get" => (counted = l.i - 1 /\ Attempts(w) = l.i - 1)
            /\ l.pc = "save_put" => (counted = l.i - 1 /\ Attempts(w) = l.i)
            /\ l.pc = "mark_completed"
                  => /\ counted = Len(l.transactions)
                     /\ Attempts(w) = Len(l.transactions)

\* the read of the first transaction failed and the second one was saved
C13_Witness ==
    /\ inv[1].pc = "mark_completed"
    /\ hist[1].env[1] = "get_error"
    /\ Counts(1) = <<1, 0, 1>>

----------------------------------------------------------------------------
(* Completion under redelivery (Spec) *)

\* the identities of the transactions the text of the document holds
DocumentIdentities ==
    LET transactions == parsed[object.text, parseMetadata(Meta), 1]
    IN  {TxKey(transactions[k]) : k \in DOMAIN transactions}

\* C14: whenever the stored status of the document is COMPLETED, each of the
\* distinct transaction identities of the document is stored, once, whatever
\* the earlier deliveries of the message did
C14_CompletedMeansStored ==
    StoredStatus("shared") = Some("COMPLETED")
        => /\ DocumentIdentities \subseteq DOMAIN txStore["shared"]
           /\ \A key \in DOMAIN txStore["shared"] : TxKey(txStore["shared"][key]) = key

----------------------------------------------------------------------------
(* The scenario of one line between a section header and a section end      *)
(* (SpecParse)                                                              *)

\* the number 50000
FiftyThousand == Normalise(50000, 0)

\* the result is one purchase of 50000 at SUPERMERCADO XYZ
OnePurchase(transactions) ==
    /\ Len(transactions) = 1
    /\ transactions[1].amount = FiftyThousand
    /\ transactions[1].type = "DEBIT"
    /\ transactions[1].merchant = <<"S", "U", "P", "E", "R", "M", "E", "R", "C", "A", "D", "O", " ", "X", "Y", "Z">>
    /\ transactions[1].category = "SUPERMERCADOS"

\* C15 as stated: parsing the header line Movimientos, the line
\* 123456SUPERMERCADO XYZ$50.000,00 and the end line Total a pagar yields
\* exactly one transaction, of amount 50000, DEBIT, merchant SUPERMERCADO XYZ,
\* category SUPERMERCADOS
C15_ScenarioYieldsOne ==
    \A r \in DOMAIN px.results : object.text = TextNone => OnePurchase(px.results[r])

\* C15: the line of the scenario holds no date and yields no transaction;
\* with a date in front of it (15/01/2025) parsing yields exactly one
\* transaction, of that day, authorization 123456, amount 50000, DEBIT,
\* merchant SUPERMERCADO XYZ, category SUPERMERCADOS
C15_DatedScenarioYieldsOne ==
    \A r \in DOMAIN px.results :
        /\ object.text = TextNone => px.results[r] = <<>>
        /\ object.text = TextDated
              => /\ OnePurchase(px.results[r])
                 /\ px.results[r][1].date = Some(<<"2", "0", "2", "5", "-", "0", "1", "-", "1", "5">>)
                 /\ px.results[r][1].authNumber = Some(<<"1", "2", "3", "4", "5", "6">>)

\* the dated scenario was parsed
C15_Witness ==
    /\ object.text = TextDated
    /\ px.runs > 0
    /\ Len(px.results[1]) = 1

----------------------------------------------------------------------------
(* parseAmount applied to the tokens the line scanner captures *)

\* the longest token drawn from AmountChars
MaxToken == 3

AmountChars == {"0", "1", "5", ".", ","}

\* the amount tokens of the model: every run of AmountChars of up to MaxToken
\* characters, and the two tokens the specification names
Tokens ==
    UNION {[1..k -> AmountChars] : k \in 1..MaxToken}
    \cup {<<"1", "2", "3", ".", "4", "5", "6", ",", "7", "8">>, <<"1", ",", "2", "3", "4", ".", "5", "6">>}

\* a line of a statement with the token as its amount: the scanner captures
\* the token (amounts[0][1]) and parseAmount normalises it
NormalizeAmount ==
    /\ px.runs = 0
    /\ \E token \in Tokens :
        LET line == <<"1", "5", "/", "0", "1", "/", "2", "0", "2", "5", " ", "U", "B", "E", "R", " ", "$">> \o token
            amountStr == MatchAllAmounts(line, 1)[1]
        IN  px' = [runs |-> 1, at |-> <<amountStr>>, results |-> <<parseAmount(amountStr)>>]
    /\ UNCHANGED <<object, passwords, uploads, txStore, queue, inv, hist>>

NextAmount == NormalizeAmount

\* one uploaded document; what is varied is the argument of the function
InitAmount == Init /\ object = Pdf(FALSE, TextDated)

SpecAmount == InitAmount /\ [][NextAmount]_vars

\* C16: the token 123.456,78 is normalised to 123456.78 and the token
\* 1,234.56 to 1234.56
C16_BothSeparatorStyles ==
    \A r \in DOMAIN px.results :
        /\ px.at[r] = <<"1", "2", "3", ".", "4", "5", "6", ",", "7", "8">> => px.results[r] = Normalise(12345678, 2)
        /\ px.at[r] = <<"1", ",", "2", "3", "4", ".", "5", "6">> => px.results[r] = Normalise(123456, 2)

HasDigit(s) == \E k \in DOMAIN s : IsDigit(s[k])

\* C17: for every token the scanner captures the normalisation returns a
\* number without raising, and for a token without a digit that number is 0
C17_MalformedTokenIsZero ==
    \A r \in DOMAIN px.results :
        ~HasDigit(px.at[r]) => px.results[r] = Normalise(0, 0)

----------------------------------------------------------------------------
(* autoCategory applied to merchant names *)

\* the most words of a merchant name
MaxWords == 2

Words == {<<"E", "X", "I", "T", "O">>, <<"H", "o", "m", "e", "c", "e", "n", "t", "e", "r">>, <<"u", "b", "e", "r">>, <<"P", "A", "G", "O">>, <<"X", "Y", "Z">>, <<"S", "t", "a", "r", "b", "u", "c", "k", "s">>,
          <<"G", "a", "s">>, <<"F", "e", "r", "r", "e", "t", "e", "r", "i", "a">>, <<"S", "U", "P", "E", "R", "M", "E", "R", "C", "A", "D", "O">>, <<"C", "a", "f", "e">>}

\* the merchant names of the model: up to MaxWords words, one space between
Merchants == {Join(ws, <<" ">>) : ws \in UNION {[1..k -> Words] : k \in 1..MaxWords}}

\* autoCategory(merchant) for a merchant name of the model
Categorize ==
    /\ px.runs = 0
    /\ \E merchant \in Merchants :
        px' = [runs |-> 1, at |-> <<merchant>>, results |-> <<autoCategory(merchant)>>]
    /\ UNCHANGED <<object, passwords, uploads, txStore, queue, inv, hist>>

NextCategory == Categorize

\* one uploaded document; what is varied is the argument of the function
InitCategory == Init /\ object = Pdf(FALSE, TextDated)

SpecCategory == InitCategory /\ [][NextCategory]_vars

\* the keyword is a substring of the merchant name, letter case apart
OccursIn(keyword, merchant) ==
    \E i \in 1..Len(merchant) :
        /\ i + Len(keyword) - 1 <= Len(merchant)
        /\ \A j \in 1..Len(keyword) : LowerChar(merchant[i + j - 1]) = LowerChar(keyword[j])

\* the positions in the table of the buckets that have a keyword in the name
BucketsHit(merchant) ==
    {i \in 1..Len(categories) :
        \E k \in 1..Len(categories[i].keywords) : OccursIn(categories[i].keywords[k], merchant)}

\* C18: the category of a merchant is that of the first bucket, in the order
\* of the table, one of whose keywords is a substring of the name whatever
\* the letter case; when several buckets match the earliest wins, and when
\* none does the category is SIN_CATEGORIA
C18_FirstBucketWins ==
    \A r \in DOMAIN px.results :
        LET hits == BucketsHit(px.at[r])
        IN  /\ hits = {} => px.results[r] = "SIN_CATEGORIA"
            /\ hits # {} => \E i \in hits : /\ \A j \in hits : i <= j
                                             /\ px.results[r] = categories[i].category

\* a name with keywords of two buckets, in upper case, was classified
C18_Witness ==
    /\ px.runs = 1
    /\ Cardinality(BucketsHit(px.at[1])) > 1
    /\ px.at[1] # ToLower(px.at[1])
    /\ px.results[1] # "SIN_CATEGORIA"

----------------------------------------------------------------------------
(* saveTransactions for two documents with the same lines: call 1 (slot 1) *)
(* saves the transactions of the document, call 2 (slot 2) those parsed    *)
(* from the same text uploaded by the same owner as another document.      *)

SaveOtherDocument ==
    /\ inv[1].pc = "mark_completed"
    /\ inv[2].pc = "idle"
    /\ \E transactions \in {parsed[object.text, parseMetadata(OtherDocument(object).metadata), 2]} :
        inv' = [inv EXCEPT ![2] = saveTransactions(IdleInv, transactions)]
    /\ UNCHANGED <<object, passwords, uploads, txStore, queue, hist, px>>

NextTwoDocuments ==
    \/ SaveFirst
    \/ SaveOtherDocument
    \/ \E w \in Invocations : SaveGet(w) \/ SavePut(w)

SpecTwoDocuments == Init /\ [][NextTwoDocuments]_vars

\* owner, date, amount, merchant and authorization code
LineFields(t) == <<t.auth0UserId, t.date, t.amount, t.merchant, t.authNumber>>

----------------------------------------------------------------------------
(* Deliveries for objects outside pdfs/ (Spec) *)

\* C20: a delivery for an object whose key does not start with pdfs/ is
\* ignored: the invocation returns successfully, so the message is
\* acknowledged, it issues no object fetch or other external call and no
\* status write, and the status record, the credentials and the transaction
\* store stay as they were
C20_OtherKeysIgnored ==
    ~StartsAt(object.key, <<"p", "d", "f", "s", "/">>, 1)
        => /\ \A w \in Invocations :
                 (inv[w].pc # "idle")
                    => (inv[w].pc = "done" /\ inv[w].outcome = "returned" /\ hist[w] = NoHist)
           /\ (queue.deliveries > 0 => queue.acked)
           /\ uploads["shared"] = uploadRecord(Owner)
           /\ txStore["shared"] = <<>>
           /\ passwords = None

\* the message for an object outside pdfs/ was delivered twice
C20_Witness ==
    /\ ~StartsAt(object.key, <<"p", "d", "f", "s", "/">>, 1)
    /\ queue.deliveries = MaxDeliveries
    /\ \A w \in Invocations : inv[w].pc = "done" /\ inv[w].outcome = "returned"

----------------------------------------------------------------------------
(* What GET /documents/{documentId} shows of the record (Spec) *)

RETRYABLE_STATUSES == {"FAILED", "PASSWORD_ERROR", "RETRY_PENDING"}

\* RETRYABLE_STATUSES.includes(status), for the status attribute of an item
canRetry(status) == status # None /\ status[1] \in RETRYABLE_STATUSES

\* a response that shows the canRetry attribute stored in the item
detailOfStoredFlag(document) ==
    [status |-> document["status"],
     canRetry |-> document["canRetry"] = Some(TRUE),
     errorType |-> document["errorType"],
     transactionsExtracted |-> document["transactionsExtracted"]]

\* the response of the detail handler for the item it read
detail(document) ==
    [status |-> document["status"],
     canRetry |-> canRetry(document["status"]),
     errorType |-> document["errorType"],
     transactionsExtracted |-> document["transactionsExtracted"]]

\* C21: the canRetry value shown for the document depends on its status
\* only: true when the status is FAILED or PASSWORD_ERROR, false when it is
\* UPLOADED, PROCESSING, DECRYPTING, EXTRACTING_TEXT, PARSING or COMPLETED,
\* and the status is always one of these, whatever the record went through
C21_CanRetryFollowsStatus ==
    LET shown == detail(uploads["shared"])
    IN  /\ shown.status \in {Some(s) : s \in {"UPLOADED", "PROCESSING", "DECRYPTING",
                "EXTRACTING_TEXT", "PARSING", "COMPLETED", "FAILED", "PASSWORD_ERROR"}}
        /\ shown.canRetry <=> shown.status \in {Some("FAILED"), Some("PASSWORD_ERROR")}

\* the document ended in PASSWORD_ERROR, which left canRetry set in the
\* record, and a later delivery completed it
C21_Witness ==
    /\ StoredStatus("shared") = Some("COMPLETED")
    /\ uploads["shared"]["canRetry"] = Some(TRUE)
    /\ uploads["shared"]["errorType"] = Some("PASSWORD_INCORRECT")
    /\ ~detail(uploads["shared"]).canRetry

----------------------------------------------------------------------------
(* Uploads requested one after the other by the same owner for the same     *)
(* document type, each processed by the worker.  The record followed in     *)
(* document-uploads is that of the latest upload; the tables are those in   *)
(* which status writes may fail.                                            *)

\* the most uploads requested
MaxUploads == 2

\* the item of a document for which no record was put
NoRecord == [a \in UploadAttrs |-> None]

\* POST /upload-url with or without a password: the password is put in
\* document-passwords, has-password is set in the metadata of the object only
\* when the request carries a password, and the initial record is put; a
\* failure of either put is logged only.  Then the owner uploads the PDF
UploadUrl ==
    /\ px.runs < MaxUploads
    /\ \A w \in Invocations : inv[w].pc \in {"idle", "done"}
    /\ \E password \in {None, Some(Password)}, stored \in BOOLEAN, tracked \in BOOLEAN :
        /\ passwords' = IF Truthy(password) /\ stored THEN password ELSE passwords
        /\ \E text \in {TextOne, TextNone} : object' = Pdf(Truthy(password), text)
        /\ uploads' = [uploads EXCEPT !["observed"] =
                           IF tracked THEN uploadRecord(Owner) ELSE NoRecord]
        /\ px' = [runs |-> px.runs + 1, at |-> Append(px.at, password),
                  results |-> Append(px.results, [stored |-> stored, tracked |-> tracked])]
    /\ inv' = [w \in Invocations |-> IdleInv]
    /\ hist' = [w \in Invocations |-> NoHist]
    /\ queue' = [deliveries |-> 0, acked |-> FALSE, archive |-> <<>>]
    /\ UNCHANGED txStore

\* the message of the latest upload is delivered to the worker
DeliverUpload ==
    /\ px.runs > 0
    /\ queue.deliveries = 0
    /\ Start(1, "observed", FALSE, 1)

NextUploads == UploadUrl \/ DeliverUpload \/ Step(1)

\* nothing uploaded yet, no password stored
InitUploads == Init /\ object = Pdf(TRUE, TextOne) /\ passwords = None

SpecUploads == InitUploads /\ [][NextUploads]_vars

\* C22: when a password is stored for the document type of an upload, and
\* the lookup does not fail, the worker calls the extraction with that
\* password, also for an upload requested without a password
C22_StoredPasswordIsUsed ==
    ( /\ inv[1].pc = "extract"
      /\ passwords # None
      /\ \A k \in DOMAIN hist[1].env : hist[1].env[k] # "credential_error" )
        => inv[1].password = passwords

----------------------------------------------------------------------------
(* parseTransactions applied to texts made of a few kinds of line *)

\* the most lines of a text
MaxLines == 3

\* the kinds of line: the section markers, bare and with a date and an
\* amount, purchases, a payment, a purchase whose description starts with
\* seven digits, a line with nothing between the date and the amount, and
\* lines that lack the amount or the date
Lines == {<<"M", "o", "v", "i", "m", "i", "e", "n", "t", "o", "s">>,
          <<"T", "o", "t", "a", "l", " ", "a", " ", "p", "a", "g", "a", "r">>,
          <<"T", "o", "t", "a", "l", " ", "a", " ", "p", "a", "g", "a", "r", " ", "1", "6", "/", "0", "1", "/", "2", "0", "2", "5", " ", "$", "9">>,
          <<"1", "5", "/", "0", "1", "/", "2", "0", "2", "5", " ", "U", "B", "E", "R", " ", "$", "9">>,
          <<"1", "5", "/", "0", "1", "/", "2", "0", "2", "5", " ", "P", "A", "G", "O", " ", "P", "S", "E", " ", "$", "5">>,
          <<"1", "5", "/", "0", "1", "/", "2", "0", "2", "5", " ", "1", "2", "3", "4", "5", "6", "7", " ", "T", "I", "E", "N", "D", "A", " ", "$", "9">>,
          <<"1", "5", "/", "0", "1", "/", "2", "0", "2", "5", " ", "$", "9">>,
          <<" ", "1", "5", "/", "0", "1", "/", "2", "0", "2", "5", " ", "U", "B", "E", "R">>,
          <<"U", "B", "E", "R", " ", "$", "9">>}

Texts == UNION {[1..k -> Lines] : k \in 1..MaxLines}

\* parseTransactions(text, metadata) for a text of the model
ParseLines ==
    /\ px.runs = 0
    /\ \E text \in Texts :
        px' = [runs |-> 1, at |-> <<text>>,
               results |-> <<parseTransactions(text, parseMetadata(Meta), 1)>>]
    /\ UNCHANGED <<object, passwords, uploads, txStore, queue, inv, hist>>

NextLines == ParseLines

\* one uploaded document; what is varied is the text extracted from it
InitLines == Init /\ object = Pdf(FALSE, TextDated)

SpecLines == InitLines /\ [][NextLines]_vars

\* the line holds one of the headings that open the list of movements
HoldsStartMarker(line) ==
    \/ \E m \in {<<"N", "u", "e", "v", "o", "s", " ", "m", "o", "v", "i", "m", "i", "e", "n", "t", "o", "s">>, <<"M", "o", "v", "i", "m", "i", "e", "n", "t", "o", "s">>} : Includes(line, m)
    \/ \A m \in {<<"N", "ú", "m", "e", "r", "o", " ", "d", "e">>, <<"a", "u", "t", "o", "r", "i", "z", "a", "c", "i", "ó", "n">>} : Includes(line, m)

\* the line holds one of the headings that close the list of movements
HoldsEndMarker(line) ==
    \E m \in {<<"E", "n", " ", "c", "a", "s", "o", "s", " ", "d", "e", " ", "i", "n", "c", "o", "n", "s", "i", "s", "t", "e", "n", "c", "i", "a", "s">>, <<"R", "e", "s", "u", "m", "e", "n", " ", "d", "e", " ", "t", "u", " ", "c", "u", "e", "n", "t", "a">>, <<"T", "o", "t", "a", "l", " ", "a", " ", "p", "a", "g", "a", "r">>} :
        Includes(line, m)

IsMarker(line) == HoldsStartMarker(line) \/ HoldsEndMarker(line)

\* line i of the text comes after a section-start line with no section-end
\* line in between, and is not a marker line itself
InsideSection(text, i) ==
    /\ ~IsMarker(text[i])
    /\ \E j \in 1..(i - 1) :
          /\ HoldsStartMarker(text[j])
          /\ \A k \in (j + 1)..(i - 1) : HoldsStartMarker(text[k]) \/ ~HoldsEndMarker(text[k])

\* C23: every transaction parse emits comes from a line inside a section:
\* none comes from a line before the first section start, from a line after
\* a section end and before the next start, or from a marker line, even one
\* that holds a date and an amount
C23_OnlyLinesInsideSections ==
    \A r \in DOMAIN px.results :
        \A n \in DOMAIN px.results[r] :
            \E i \in DOMAIN px.at[r] :
                /\ Trim(px.at[r][i]) = px.results[r][n].rawLine
                /\ InsideSection(px.at[r], i)

\* the line holds a DD/MM/YYYY date and a currency amount
IsCandidate(line) == HasDate(line) /\ \E i \in 1..Len(line) : AmountAt(line, i)

\* the lines of the text that are inside a section and hold a date and an
\* amount, in their order
Candidates(text) ==
    LET at == SelectSeq([i \in 1..Len(text) |-> i],
                        LAMBDA i : InsideSection(text, i) /\ IsCandidate(Trim(text[i])))
    IN  [n \in 1..Len(at) |-> Trim(text[at[n]])]

\* C24: of the lines inside a section, each one that holds both a date and
\* a currency amount yields exactly one transaction and every other one
\* yields none: the transactions that do not come from marker lines are, in
\* order, those of the lines inside a section that hold both, whatever lines
\* are skipped around them
C24_OneTransactionPerCandidate ==
    \A r \in DOMAIN px.results :
        LET plain == SelectSeq(px.results[r], LAMBDA t : ~IsMarker(t.rawLine))
        IN  [n \in 1..Len(plain) |-> plain[n].rawLine] = Candidates(px.at[r])

\* a section with a line without amount, a purchase and a line without date
C24_Witness ==
    /\ px.runs = 1
    /\ px.at[1] = <<<<"M", "o", "v", "i", "m", "i", "e", "n", "t", "o", "s">>, <<" ", "1", "5", "/", "0", "1", "/", "2", "0", "2", "5", " ", "U", "B", "E", "R">>, <<"1", "5", "/", "0", "1", "/", "2", "0", "2", "5", " ", "U", "B", "E", "R", " ", "$", "9">>>>
           \/ px.at[1] = <<<<"M", "o", "v", "i", "m", "i", "e", "n", "t", "o", "s">>, <<"1", "5", "/", "0", "1", "/", "2", "0", "2", "5", " ", "U", "B", "E", "R", " ", "$", "9">>, <<"U", "B", "E", "R", " ", "$", "9">>>>
    /\ Len(px.results[1]) = 1
    /\ px.results[1][1].rawLine = <<"1", "5", "/", "0", "1", "/", "2", "0", "2", "5", " ", "U", "B", "E", "R", " ", "$", "9">>

\* zero or less: the numbers of the model have no sign
NotPositive(n) == ~n.nan /\ n.mant = 0

\* C25: every transaction parse emits follows the sign convention: the
\* amount of a DEBIT is negative or zero, the amount of a CREDIT is positive
\* or zero
C25_SignFollowsType ==
    \A r \in DOMAIN px.results :
        \A n \in DOMAIN px.results[r] :
            LET t == px.results[r][n]
            IN  /\ t.type = "DEBIT" => NotPositive(t.amount)
                /\ t.type = "CREDIT" => ~t.amount.nan

\* the digits the description of the line starts with, the date left out
LeadingDigits(rawLine) ==
    LET description == Trim(ReplaceFirst(Trim(Split(rawLine, "$")[1]), DateMatch(rawLine), <<>>))
    IN  SubSeq(description, 1, DigitRunEnd(description, 1) - 1)

\* C26: when the description of a line starts with a run of six digits or
\* more, the whole run is the authorization code and the merchant is the
\* rest of the description, with none of those digits left at its start
C26_WholeCodeIsStripped ==
    \A r \in DOMAIN px.results :
        \A n \in DOMAIN px.results[r] :
            LET t == px.results[r][n]
                code == LeadingDigits(t.rawLine)
            IN  Len(code) >= 6
                   => /\ t.authNumber = Some(code)
                      /\ ~IsDigit(t.merchant[1])

----------------------------------------------------------------------------
(* What the save tells the status tracker (Spec) *)

\* C27: the counts the save returned (saved, duplicates, errors) are passed
\* to the status tracker with the completion, so that the record reflects
\* them: two invocations that pass the same values for the same document
\* have the same counts
C27_CountsReachTheTracker ==
    \A w, v \in Invocations :
        ( /\ inv[w].pc = "mark_completed"
          /\ inv[v].pc = "mark_completed"
          /\ completedArguments(inv[w], Now(w)) = completedArguments(inv[v], Now(v)) )
            => Counts(w) = Counts(v)

----------------------------------------------------------------------------
(* Credentials that are missing (SpecNI) *)

EnvOf(w) == {hist[w].env[k] : k \in DOMAIN hist[w].env}

\* the tools the extraction ran in invocation w, once it has answered
ToolsRun(w) ==
    LET outcome == CHOOSE c \in ExtractOutcomes(TRUE) : c \in EnvOf(w)
        call == extractTextFromPDF(object.text, inv[w].password, outcome, Now(w))
    IN  {call.execs[k].tool : k \in DOMAIN call.execs}

----------------------------------------------------------------------------
(* The time stamps of the record (Spec) *)

\* C29: processingStartedAt, completedAt and failedAt are stamped when they
\* are not set yet; once one of them is set on the record no later write
\* overwrites it, so that a redelivery that enters PROCESSING again keeps
\* the first processingStartedAt
C29_StampsAreKept ==
    [][\A a \in {"processingStartedAt", "completedAt", "failedAt"} :
          uploads["shared"][a] # None => uploads["shared"][a]' = uploads["shared"][a]]_vars

----------------------------------------------------------------------------
(* status and statusComposite (SpecUploads) *)

\* C30: in every state of the record of a document, statusComposite is the
\* owner and the status of the record: the put of the upload and every status
\* write set both together, whatever uploads, invocations and failed status
\* writes come one after the other
C30_CompositeFollowsStatus ==
    LET record == uploads["observed"]
    IN  IF record["status"] = None THEN record["statusComposite"] = None
        ELSE record["statusComposite"]
                = Some([auth0UserId |-> Owner, status |-> record["status"][1]])

\* the put of the second upload failed, so the record is the one the status
\* writes made, and the last status write of the invocation was lost
C30_Witness ==
    /\ px.runs = 2
    /\ ~px.results[2].tracked
    /\ inv[1].pc = "done"
    /\ Has(Statuses(1), "COMPLETED")
    /\ StoredStatus("observed") = Some("PARSING")
    /\ uploads["observed"]["uploadedAt"] = None

----------------------------------------------------------------------------
(* The failure kinds written to the record of a document (SpecNI) *)

FailureKinds ==
    {"PASSWORD_INCORRECT", "PASSWORD_MISSING", "EXTRACTION_FAILED", "PARSING_FAILED",
     "NO_TRANSACTIONS_FOUND", "PERSISTENCE_ERROR", "UNKNOWN"}

\* C31: every failure kind an invocation writes to the record of a document
\* is one of PASSWORD_INCORRECT, PASSWORD_MISSING, EXTRACTION_FAILED,
\* PARSING_FAILED, NO_TRANSACTIONS_FOUND, PERSISTENCE_ERROR and UNKNOWN, every
\* write of FAILED or PASSWORD_ERROR carries one, and so the kind the record
\* holds is one of them
C31_FailureKindsAreClosed ==
    /\ \A w \in Invocations : \A k \in DOMAIN hist[w].writes :
          LET wr == hist[w].writes[k]
          IN  /\ wr.errorType # None => wr.errorType[1] \in FailureKinds
              /\ wr.status \in FailureStatuses => wr.errorType # None
    /\ \A s \in Stores :
          uploads[s]["errorType"] # None => uploads[s]["errorType"][1] \in FailureKinds

\* the observed invocation wrote FAILED with the kind EXTRACTION_FAILED and
\* the record holds it
C31_Witness ==
    /\ Has(hist[1].writes, [status |-> "FAILED", errorType |-> Some("EXTRACTION_FAILED")])
    /\ uploads["observed"]["errorType"] = Some("EXTRACTION_FAILED")
    /\ StoredStatus("observed") = Some("FAILED")

----------------------------------------------------------------------------
(* Redeliveries of a document with no transactions (Spec) *)

\* the object is in pdfs/ and the parser finds no transaction in its text
EmptyDocument ==
    /\ inPdfFolder(object.key)
    /\ \A now \in Clock : parsed[object.text, parseMetadata(Meta), now] = <<>>

NoTransactionsWrite == [status |-> "FAILED", errorType |-> Some("NO_TRANSACTIONS_FOUND")]

----------------------------------------------------------------------------
(* Stored transactions are left as they are (Spec) *)

\* C33: a transaction in the store is never changed or removed: whatever
\* deliveries and concurrent invocations follow, the item under an owner and
\* a transactionId stays the one the first successful put wrote, createdAt
\* included
C33_StoredTransactionsAreKept ==
    [][\A s \in Stores : \A key \in DOMAIN txStore[s] :
          /\ key \in DOMAIN txStore[s]'
          /\ txStore[s][key]' = txStore[s][key]]_vars

\* the second delivery went through the save of a transaction the first
\* delivery had stored: it counted a duplicate, and the item in the store
\* has the createdAt of the first delivery, not that of the second
C33_Witness ==
    \E w \in Invocations :
        /\ inv[w].pc \in {"mark_completed", "done"}
        /\ inv[w].delivery = 2
        /\ inv[w].duplicates > 0
        /\ \E k \in DOMAIN inv[w].transactions :
              LET t == inv[w].transactions[k]
              IN  /\ TxKey(t) \in DOMAIN txStore["shared"]
                  /\ t.createdAt # txStore["shared"][TxKey(t)].createdAt
                  /\ txStore["shared"][TxKey(t)].createdAt = 1

----------------------------------------------------------------------------
(* Completion after a save that reported errors (Spec) *)

\* C34: an invocation that wrote COMPLETED had a save without errors, and
\* every transaction it parsed is in the store
C34_CompletedAfterCleanSave ==
    \A w \in Invocations :
        Has(Statuses(w), "COMPLETED")
            => /\ inv[w].errors = 0
               /\ Identities(w) \subseteq DOMAIN txStore[inv[w].store]

----------------------------------------------------------------------------
(* The count recorded at completion (Spec) *)

\* the transactions in the store that came from the document
StoredOfDocument(s) ==
    {key \in DOMAIN txStore[s] : txStore[s][key].sourceDocumentId = Meta.documentId}

\* C35: when an invocation whose save reported no errors has marked the
\* document COMPLETED, the transactionsExtracted of the record is at least 1
\* and is the number of transactions in the store that came from the
\* document, also for a text with two lines that have the same date, amount,
\* merchant and authorization code
C35_RecordedCountIsStoredCount ==
    \A w \in Invocations :
        (inv[w].pc = "done" /\ Has(Statuses(w), "COMPLETED") /\ inv[w].errors = 0)
            => /\ uploads[inv[w].store]["transactionsExtracted"] # None
               /\ uploads[inv[w].store]["transactionsExtracted"][1] >= 1
               /\ uploads[inv[w].store]["transactionsExtracted"][1]
                     = Cardinality(StoredOfDocument(inv[w].store))

----------------------------------------------------------------------------
(* What a completed record keeps of an earlier failure (Spec) *)

\* C36: a record whose status is COMPLETED holds no failure data: no
\* errorType, no errorMessage, no failedAt, and no canRetry that is true,
\* also when a failed attempt came before the one that completed
C36_CompletedHoldsNoFailure ==
    StoredStatus("shared") = Some("COMPLETED")
        => /\ uploads["shared"]["errorType"] = None
           /\ uploads["shared"]["errorMessage"] = None
           /\ uploads["shared"]["failedAt"] = None
           /\ uploads["shared"]["canRetry"] # Some(TRUE)

----------------------------------------------------------------------------
(* Metadata that cannot be used (Spec) *)

\* the object has no owner id or no document id in its metadata
MetadataUnusable == ~Truthy(Meta.auth0UserId) \/ ~Truthy(Meta.documentId)

\* the fetch of the metadata failed in invocation w
FetchFailed(w) == hist[w].env # <<>> /\ hist[w].env[1] = "meta_failed"

\* C37: an invocation whose metadata fetch failed, or whose object lacks the
\* owner id or the document id, raises at once: it issued no status write,
\* read no credential, ran no stage and saved nothing.  While the metadata
\* lacks an id every delivery ends so: the record stays as the upload left
\* it, with status UPLOADED, the store stays empty and the message is never
\* acknowledged
C37_UnusableMetadataWritesNothing ==
    /\ \A w \in Invocations :
          ( /\ inPdfFolder(object.key)
            /\ inv[w].pc \notin {"idle", "get_metadata"}
            /\ (MetadataUnusable \/ FetchFailed(w)) )
              => /\ Raised(w)
                 /\ hist[w].writes = <<>>
                 /\ hist[w].stages = <<>>
                 /\ Len(hist[w].env) = 1
                 /\ inv[w].password = None
                 /\ Counts(w) = <<0, 0, 0>>
    /\ (inPdfFolder(object.key) /\ MetadataUnusable)
          => /\ uploads["shared"] = uploadRecord(Owner)
             /\ txStore["shared"] = <<>>
             /\ ~queue.acked
             /\ \A k \in DOMAIN queue.archive : queue.archive[k].outcome = "raised"

\* the object has no document id: the message was delivered twice, the fetch
\* succeeded both times, both invocations have raised and the record is
\* still UPLOADED
C37_Witness ==
    /\ ~Truthy(Meta.documentId)
    /\ queue.deliveries = 2
    /\ \A w \in Invocations :
          Raised(w) /\ hist[w].env = <<"meta_ok">> /\ hist[w].writes = <<>>
    /\ StoredStatus("shared") = Some("UPLOADED")

----------------------------------------------------------------------------
(* The identity of an emitted transaction (SpecLines) *)

\* C38: the transactionId of every transaction parse emits is the digest
\* computed again from the fields of the emitted transaction itself (owner,
\* date, amount, merchant, authorization code, source document), also when
\* nothing is left of the merchant text once the date and the authorization
\* code are taken out
C38_IdIsDigestOfEmittedFields ==
    \A r \in DOMAIN px.results : \A k \in DOMAIN px.results[r] :
        LET t == px.results[r][k]
        IN  t.transactionId = generateTransactionHash(t)
====
